---- MODULE Spec2Model ----
(***************************************************************************)
(* A model of the ddb storage engine: the write path (validate, WAL        *)
(* group commit, memtable apply), the read path (memtable, frozen          *)
(* memtable, SSTs), the memtable swap and flush, the descriptor, and       *)
(* process stop / newDatabase recovery.                                    *)
(*                                                                         *)
(* Abstractions: byte strings are named by short strings with a length     *)
(* (KeyLen, ValueLen) and a byte order (KeyRank); a WAL record and a       *)
(* memtable entry each count as one unit of size; an SST is the sorted     *)
(* sequence of its rows.  Go's nil slice and the empty non-nil slice are   *)
(* distinct values (NILV, EMPTY).                                          *)
(***************************************************************************)
EXTENDS Integers, Sequences, FiniteSets, TLC

\* ------------------------------------------------------ program constants
MaxKeySize == 4096
MaxValueSize == 524288
RecordChCap == 1000

\* ------------------------------------------------------------ byte strings
NILV == "<nil>"
EMPTY == ""
UNSET == "<unset>"

\* Keys of the model: "" (empty), "a", "b", and two long keys of 4096 and
\* 4097 bytes ("a" repeated).
KeyLen(k) ==
  CASE k = "" -> 0
    [] k = "a" -> 1
    [] k = "b" -> 1
    [] k = "a4096" -> 4096
    [] k = "a4097" -> 4097

\* Byte-wise order of the keys above.
KeyRank(k) ==
  CASE k = "" -> 0
    [] k = "a" -> 1
    [] k = "a4096" -> 2
    [] k = "a4097" -> 3
    [] k = "b" -> 4

ValueLen(v) ==
  CASE v = NILV -> 0
    [] v = EMPTY -> 0
    [] v = "x" -> 1
    [] v = "v524288" -> 524288
    [] v = "v524289" -> 524289

\* ------------------------------------------------------------- validation
\* validateKey with the limit off by one: a key of MaxKeySize is refused
validateKeyOff(k) == ~(k = "" \/ KeyLen(k) >= MaxKeySize)

\* validateKey: TRUE when it returns nil
validateKey(k) == ~(k = "" \/ KeyLen(k) > MaxKeySize)

\* validateValue: TRUE when it returns nil
validateValue(v) == ~(ValueLen(v) > MaxValueSize)

\* ------------------------------------------------------ proto3 LogRecord
\* proto.Marshal leaves a bytes field of length 0 out of the encoding and
\* proto.Unmarshal leaves an absent bytes field nil.
Marshal(l) == [l EXCEPT !.val = IF ValueLen(l.val) = 0 THEN UNSET ELSE l.val]

Unmarshal(b) == [b EXCEPT !.val = IF b.val = UNSET THEN NILV ELSE b.val]

\* --------------------------------------------------------------- memtable
Min(S) == CHOOSE x \in S : \A y \in S : x <= y
Max(S) == CHOOSE x \in S : \A y \in S : x >= y

\* math.MaxInt64 as Memtable.Find passes it: a timestamp that no row exceeds
MaxTimestamp(rows) == Max({0} \cup {rows[i].ts : i \in 1..Len(rows)})

\* index of the first row that is >= (key, timestamp) in (key asc, ts desc)
\* order, Len(rows)+1 if there is none
findGreaterOrEqual(rows, key, timestamp) ==
  LET ge == {i \in 1..Len(rows) :
               ~(KeyRank(rows[i].key) < KeyRank(key)
                 \/ (rows[i].key = key /\ rows[i].ts > timestamp))}
  IN IF ge = {} THEN Len(rows) + 1 ELSE Min(ge)

\* Insert meets an already present (key, timestamp): glog.Fatalf
InsertFatal(rows, key, timestamp) ==
  LET n == findGreaterOrEqual(rows, key, timestamp)
  IN n <= Len(rows) /\ rows[n].key = key /\ rows[n].ts = timestamp

\* Memtable.SequenceUpper after an Insert with sequence seq: the memtable
\* covers the sequence numbers up to it
SequenceUpper(upper, seq) == IF seq > upper THEN seq ELSE upper

\* Memtable.Insert: the entry goes before the first one not less than it
Insert(m, seq, key, timestamp, value) ==
  LET n == findGreaterOrEqual(m.rows, key, timestamp)
      row == [key |-> key, ts |-> timestamp, val |-> value]
  IN [rows |-> SubSeq(m.rows, 1, n - 1) \o <<row>> \o SubSeq(m.rows, n, Len(m.rows)),
      upper |-> SequenceUpper(m.upper, seq),
      size |-> m.size + 1,
      base |-> m.base,
      seqs |-> m.seqs \cup {seq}]

\* memtable.New; history: base, the sequence it was made with, and seqs,
\* the sequence numbers of the entries inserted
New(seq) == [rows |-> <<>>, upper |-> seq, size |-> 0, base |-> seq, seqs |-> {}]

\* Find with the timestamp 0 in place of math.MaxInt64
MemFindFromZero(rows, key) ==
  LET n == findGreaterOrEqual(rows, key, 0)
  IN IF n <= Len(rows) /\ rows[n].key = key
     THEN [val |-> rows[n].val, found |-> TRUE]
     ELSE [val |-> NILV, found |-> FALSE]

\* Memtable.Find: <<value, found>>
MemFind(rows, key) ==
  LET n == findGreaterOrEqual(rows, key, MaxTimestamp(rows))
  IN IF n <= Len(rows) /\ rows[n].key = key
     THEN [val |-> rows[n].val, found |-> TRUE]
     ELSE [val |-> NILV, found |-> FALSE]

\* -------------------------------------------------------------------- SST
typeNil == 1
typeBytes == 2

\* dataBlockBuilder.Append: the value cell of a row
EncodeCell(value) == IF value = NILV THEN <<typeNil>> ELSE <<typeBytes, value>>

\* dataBlock.Find: the value of a cell read back
DecodeCell(cell) == IF cell[1] = typeNil THEN NILV ELSE cell[2]

\* sst.Writer fed from an iterator over rows
WriteSst(rows) == [i \in 1..Len(rows) |->
                     [key |-> rows[i].key, ts |-> rows[i].ts, cell |-> EncodeCell(rows[i].val)]]

\* sst.Reader.Find: the first row of key, NotFound if there is none
SstFind(file, key) ==
  LET hits == {i \in 1..Len(file) : file[i].key = key}
  IN IF hits = {} THEN [found |-> FALSE, val |-> NILV, ts |-> 0]
     ELSE [found |-> TRUE, val |-> DecodeCell(file[Min(hits)].cell), ts |-> file[Min(hits)].ts]

\* database.Find over the structures it took under the read lock:
\* memRows the live memtable, imemOpt the frozen one (<<>> if nil),
\* files the rows of the SSTs in list order
dbFind(memRows, imemOpt, files, key) ==
  LET m == MemFind(memRows, key)
      im == IF imemOpt = <<>> THEN [val |-> NILV, found |-> FALSE]
            ELSE MemFind(imemOpt[1], key)
      f == [i \in 1..Len(files) |-> SstFind(files[i], key)]
      hits == {i \in 1..Len(files) : f[i].found}
      maxTs == Max({f[i].ts : i \in hits})
      first == Min({i \in hits : f[i].ts = maxTs})
  IN IF m.found THEN [val |-> m.val, hit |-> TRUE]
     ELSE IF im.found THEN [val |-> im.val, hit |-> TRUE]
     ELSE IF hits = {} THEN [val |-> NILV, hit |-> FALSE]
     ELSE [val |-> f[first].val, hit |-> TRUE]

\* ------------------------------------------------------------- descriptor
\* findLatestFile: the name with the highest version, and the result
\* parameter "version", which the loop shadows and never assigns
findLatestFile(files) ==
  [name |-> Max(DOMAIN files), version |-> 0]

NewDescriptor == [cur |-> <<>>, version |-> 0]

LoadDescriptor(files) ==
  IF DOMAIN files = {} THEN NewDescriptor
  ELSE LET l == findLatestFile(files)
       IN [cur |-> files[l.name], version |-> l.version + 1]

\* the content of a descriptor file that Save has created and not yet
\* flushed: shorter than its header and data
TORN == "<torn>"

\* LoadDescriptor returns an error other than "not exist": the header or the
\* data of the highest numbered file cannot be read in full
LoadFails(files) ==
  /\ DOMAIN files # {}
  /\ files[findLatestFile(files).name] = TORN

\* Descriptor.Save: the descriptor directory after the Save of d
SaveFiles(files, d) ==
  LET curFn == d.version
      nextFn == d.version + 1
      keep == (DOMAIN files \ {curFn}) \cup {nextFn}
  IN [v \in keep |-> IF v = nextFn THEN d.cur ELSE files[v]]

\* ------------------------------------------------------------------ state
VARIABLES
  clock,      \* wall clock, microseconds
  walFiles,   \* log directory: start sequence |-> [recs, synced]
  descFiles,  \* descriptor directory: version |-> list of SstMeta
  sstFiles,   \* SST directory: file name |-> rows
  sstCtr,     \* wall clock in nanoseconds, names the next SST
  opts,       \* Options: MemtableFlushSize, TargetLogSize
  bnd,        \* what the run is limited to: ops, clock, restarts, io
  recLog,     \* history: what the last recoverLog scanned and applied
  cw,         \* wal.Writer.Close: its caller's position
  sc,         \* a wal.Scanner over a directory of framed segments
  gc,         \* history: the last CleanUnusedFiles pass
  sl,         \* a Memtable as linked nodes, its writer and its reader
  mt,         \* a Memtable on its own, what was inserted and what Find returned
  sf,         \* an SST file on its own: what was appended, the file, what Find returned
  cp,         \* the readers of the engine with their reference counts, and compact
  mg,         \* a mergingIter over child iterators
  ch,         \* a block Cache
  oc,         \* an orderedcode item, its encoding and what Parse returned
  wa,         \* a wal.Writer on its own: the calls of Append and their callbacks
  alive,      \* the process is running
  mem,        \* database.memtable
  imem,       \* database.imemtable, <<>> for nil
  ssts,       \* database.ssts: file names of the readers
  desc,       \* database.descriptor
  w,          \* wal.Writer: nextSeq, file, size
  wbuf,       \* wal.Writer.bufWriter: records not yet flushed to the file
  recordCh,   \* wal.Writer.recordCh
  callbacks,  \* writeLoop: callbacks of the current batch
  wl,         \* writeLoop: position and the result of sync
  flush,      \* the flushIMemtable goroutine
  cl,         \* the callers
  ioFails,    \* I/O errors injected so far
  restarts,   \* process starts after the first
  started,    \* mutations started so far
  hist,       \* history: every log record formed, in formation order
  cbLog,      \* history: sequence numbers in the order their callbacks ran
  lastMut,    \* history: per key the mutation started last in this process
  ackedVal,   \* history: per key the value of the last successful Set
  touched,    \* history: keys with a mutation started in this process
  zeroOnly    \* history: per key whether every mutation was a zero-length Set

\* the state of the operations that only some specifications run
moreUnits == <<sf, cp, mg, ch, oc, wa>>

unitVars == <<cw, sc, gc, sl, mt, moreUnits>>

vars == <<clock, walFiles, descFiles, sstFiles, sstCtr, opts, bnd, unitVars, recLog, alive, mem, imem,
          ssts, desc, w, wbuf, recordCh, callbacks, wl, flush, cl, ioFails,
          restarts, started, hist, cbLog, lastMut, ackedVal, touched, zeroOnly>>

StoreKeys == {"a", "b", "a4096"}
NONE == "<none>"

PENDING == "<pending>"

NoMut == [id |-> 0, type |-> NONE, val |-> NONE, done |-> FALSE, last |-> 0]

IdleClient ==
  [pc |-> "idle", op |-> NONE, key |-> NONE, val |-> NONE, ts |-> 0, res |-> NONE,
   out |-> NONE, hit |-> FALSE, live |-> FALSE, smem |-> <<>>, simem |-> <<>>,
   sssts |-> <<>>, seen |-> <<>>, mid |-> 0, exp |-> 0, ryw |-> NoMut,
   dur |-> NONE, zero |-> FALSE]

IdleFlush == [pc |-> "idle", fn |-> 0, applied |-> 0]

EmptyFile == [recs |-> <<>>, synced |-> 0]

EmptyDir == [v \in {} |-> <<>>]

NoRecovery == [last |-> 0, scanned |-> <<>>, applied |-> <<>>]

\* Close has not been called; before: the records appended before the call
NoClose == [pc |-> "none", before |-> 0]

\* no Scanner has been made
NoScan == [dir |-> <<>>, done |-> FALSE, recs |-> <<>>, err |-> "nil", opened |-> 0]

\* CleanUnusedFiles has not run
NoGc == [ran |-> FALSE, applied |-> 0, before |-> EmptyDir, after |-> EmptyDir, cur |-> 0]

\* no linked memtable has been made
NoList == [nodes |-> <<>>]

\* a Memtable from New(0) with nothing inserted and no Find made
NoTable ==
  [m |-> [rows |-> <<>>, upper |-> 0, size |-> 0, base |-> 0, seqs |-> {}], ins |-> <<>>, probed |-> FALSE,
   key |-> "", val |-> NILV, found |-> FALSE]

\* no SST has been written
NoSst == [pc |-> "none"]

\* no compaction harness: the readers are those of the engine
NoCompact == [pc |-> "none"]

\* no mergingIter has been made
NoMerge == [pc |-> "none"]

\* no Cache has been made
NoCache == [pc |-> "none"]

\* no orderedcode item has been encoded
NoCode == [pc |-> "none"]

\* wal.Writer.Append has not been called on the stand-alone writer
NoAppend == [pc |-> "none"]

\* none of the file-level units is in use
MoreIdle ==
  /\ sf = NoSst
  /\ cp = NoCompact
  /\ mg = NoMerge
  /\ ch = NoCache
  /\ oc = NoCode
  /\ wa = NoAppend

\* the state after newDatabase on empty directories, for nClients
\* callers, Options o and limits b
InitEngine(nClients, o, b) ==
  /\ clock = 0
  /\ walFiles = [f \in {0} |-> EmptyFile]
  /\ descFiles = EmptyDir
  /\ sstFiles = EmptyDir
  /\ sstCtr = 1
  /\ opts = o
  /\ bnd = b
  /\ recLog = NoRecovery
  /\ alive = TRUE
  /\ mem = New(0)
  /\ imem = <<>>
  /\ ssts = <<>>
  /\ desc = NewDescriptor
  /\ w = [nextSeq |-> 0, file |-> 0, size |-> 0]
  /\ wbuf = <<>>
  /\ recordCh = <<>>
  /\ callbacks = <<>>
  /\ wl = [pc |-> "first", err |-> FALSE]
  /\ flush = IdleFlush
  /\ cl = [c \in 1..nClients |-> IdleClient]
  /\ ioFails = 0
  /\ restarts = 0
  /\ started = 0
  /\ hist = <<>>
  /\ cbLog = <<>>
  /\ lastMut = [k \in StoreKeys |-> NoMut]
  /\ ackedVal = [k \in StoreKeys |-> NONE]
  /\ touched = {}
  /\ zeroOnly = [k \in StoreKeys |-> "fresh"]

\* the state after newDatabase with no Close, Scanner, GC pass or linked
\* memtable under way
InitWith(nClients, o, b) ==
  /\ InitEngine(nClients, o, b)
  /\ MoreIdle
  /\ cw = NoClose
  /\ sc = NoScan
  /\ gc = NoGc
  /\ sl = NoList
  /\ mt = NoTable

\* the variables of the database and its history
engineVars == <<clock, walFiles, descFiles, sstFiles, sstCtr, opts, bnd, recLog, alive,
                mem, imem, ssts, desc, w, wbuf, recordCh, callbacks, wl, flush, cl,
                ioFails, restarts, started, hist, cbLog, lastMut, ackedVal, touched,
                zeroOnly>>

\* the wall clock advances
Tick ==
  /\ clock < bnd.clock
  /\ clock' = clock + 1
  /\ UNCHANGED <<walFiles, descFiles, sstFiles, sstCtr, opts, bnd, unitVars, recLog, alive, mem, imem,
                 ssts, desc, w, wbuf, recordCh, callbacks, wl, flush, cl, ioFails,
                 restarts, started, hist, cbLog, lastMut, ackedVal, touched, zeroOnly>>

\* ------------------------------------------------------------------- Set
\* database.Set up to and including the reading of the clock; type is
\* "PUT" for Set and "DELETE" for Delete
Mutate(c, k, v, type) ==
  /\ alive
  /\ cl[c].pc = "idle"
  /\ IF ~validateKey(k) \/ ~validateValue(v)
     THEN /\ cl' = [cl EXCEPT ![c] = [IdleClient EXCEPT !.op = type, !.key = k, !.val = v,
                                                        !.res = "InvalidArgument"]]
          /\ UNCHANGED <<started, lastMut, ackedVal, touched, zeroOnly>>
     ELSE /\ started < bnd.ops
          /\ started' = started + 1
          /\ cl' = [cl EXCEPT ![c] = [IdleClient EXCEPT !.pc = "append", !.op = type,
                                                        !.key = k, !.val = v, !.ts = clock,
                                                        !.mid = started + 1]]
          /\ lastMut' = [lastMut EXCEPT ![k] = [id |-> started + 1, type |-> type,
                                                val |-> v, done |-> FALSE,
                                                last |-> lastMut[k].last]]
          /\ ackedVal' = [ackedVal EXCEPT ![k] = PENDING]
          /\ touched' = touched \cup {k}
          /\ zeroOnly' = [zeroOnly EXCEPT ![k] =
                            IF type = "PUT" /\ ValueLen(v) = 0 /\ zeroOnly[k] # "other"
                            THEN "zero" ELSE "other"]
  /\ UNCHANGED <<clock, walFiles, descFiles, sstFiles, sstCtr, opts, bnd, unitVars, recLog, alive, mem, imem,
                 ssts, desc, w, wbuf, recordCh, callbacks, wl, flush, ioFails,
                 restarts, hist, cbLog>>

Set(c, k, v) == Mutate(c, k, v, "PUT")

Delete(c, k) == Mutate(c, k, NILV, "DELETE")

\* wal.Writer.formRecord: the record with its sequence number
formRecord(nextSeq, c) ==
  [seq |-> nextSeq, key |-> cl[c].key, ts |-> cl[c].ts, val |-> cl[c].val,
   type |-> cl[c].op]

\* wal.Writer.Append, under the writer's lock
WriterAppend(c) ==
  /\ alive
  /\ cl[c].pc = "append"
  /\ Len(recordCh) < RecordChCap
  /\ LET l == formRecord(w.nextSeq, c)
         id == Len(hist) + 1
     IN /\ w' = [w EXCEPT !.nextSeq = w.nextSeq + 1]
        /\ recordCh' = recordCh \o <<[c |-> c, id |-> id, seq |-> l.seq, l |-> l,
                                      data |-> Marshal(l)]>>
        /\ hist' = hist \o <<[seq |-> l.seq, run |-> restarts, key |-> l.key,
                              l |-> l, st |-> "queued", acked |-> FALSE]>>
  /\ cl' = [cl EXCEPT ![c].pc = "wait"]
  /\ UNCHANGED <<clock, walFiles, descFiles, sstFiles, sstCtr, opts, bnd, unitVars, recLog, alive, mem, imem,
                 ssts, desc, wbuf, callbacks, wl, flush, ioFails, restarts, started,
                 cbLog, lastMut, ackedVal, touched, zeroOnly>>

\* ------------------------------------------------------------- WAL files
\* bufio.Writer.Flush: the buffered records reach the file; a file that was
\* removed from the directory while open takes them out of sight
FlushBuf(files, file, buf) ==
  IF file \in DOMAIN files THEN [files EXCEPT ![file].recs = @ \o buf] ELSE files

\* os.File.Sync that succeeds: the whole file is on stable storage
SyncFile(files, file) ==
  IF file \in DOMAIN files THEN [files EXCEPT ![file].synced = Len(files[file].recs)]
  ELSE files

\* os.Create: a new empty file, an existing file of that name is truncated
Create(files, name) ==
  [f \in DOMAIN files \cup {name} |-> IF f = name THEN EmptyFile ELSE files[f]]

\* sync without the f.Sync: the buffer is flushed and nil is returned
syncLost(files, file, buf, ok) == FlushBuf(files, file, buf)

\* wal.Writer.sync: Flush, then f.Sync, which succeeds (ok) or fails
sync(files, file, buf, ok) ==
  IF ok THEN SyncFile(FlushBuf(files, file, buf), file)
  ELSE FlushBuf(files, file, buf)

\* rollover without the Flush: the new file is created over the buffered records
rolloverNoFlush(files, file, buf, seq, ok) ==
  IF ok THEN Create(files, seq) ELSE files

\* wal.Writer.rollover(seq) of an open writer: Flush, f.Sync, Close, Create;
\* when f.Sync fails it returns after the Flush
rollover(files, file, buf, seq, ok) ==
  IF ok THEN Create(SyncFile(FlushBuf(files, file, buf), file), seq)
  ELSE FlushBuf(files, file, buf)

\* history: the records that are in the synced part of some file
SyncedIds(files) ==
  UNION {{files[f].recs[i].id : i \in 1..files[f].synced} : f \in DOMAIN files}

SetSt(h, ids, st) ==
  [i \in 1..Len(h) |-> IF i \in ids THEN [h[i] EXCEPT !.st = st] ELSE h[i]]

\* ------------------------------------------------------------- writeLoop
\* one record taken from recordCh and handed to writeRawRecord; a record
\* whose rollover fails has its callback invoked with the error at once
WLWrite ==
  /\ alive
  /\ wl.pc \in {"first", "more"}
  /\ recordCh # <<>>
  /\ LET r == Head(recordCh)
         rec == [seq |-> r.data.seq, key |-> r.data.key, ts |-> r.data.ts,
                 val |-> r.data.val, type |-> r.data.type, id |-> r.id]
     IN /\ recordCh' = Tail(recordCh)
        /\ wl' = [wl EXCEPT !.pc = "more"]
        /\ IF w.size > opts.target
           THEN \E ok \in BOOLEAN :
                  /\ ok \/ ioFails < bnd.io
                  /\ ioFails' = IF ok THEN ioFails ELSE ioFails + 1
                  /\ walFiles' = rollover(walFiles, w.file, wbuf, r.seq, ok)
                  /\ IF ok
                     THEN /\ w' = [w EXCEPT !.file = r.seq, !.size = 1]
                          /\ wbuf' = <<rec>>
                          /\ callbacks' = callbacks \o <<r>>
                          /\ hist' = SetSt(SetSt(hist, {r.id}, "written"),
                                           SyncedIds(walFiles'), "synced")
                          /\ UNCHANGED <<cl, cbLog>>
                     ELSE /\ wbuf' = <<>>
                          /\ hist' = SetSt(hist, {r.id}, "failed")
                          /\ cl' = [cl EXCEPT ![r.c].pc = "idle", ![r.c].res = "Internal"]
                          /\ cbLog' = cbLog \o <<r.seq>>
                          /\ UNCHANGED <<w, callbacks>>
           ELSE /\ w' = [w EXCEPT !.size = w.size + 1]
                /\ wbuf' = wbuf \o <<rec>>
                /\ callbacks' = callbacks \o <<r>>
                /\ hist' = SetSt(hist, {r.id}, "written")
                /\ UNCHANGED <<walFiles, ioFails, cl, cbLog>>
  /\ UNCHANGED <<clock, descFiles, sstFiles, sstCtr, opts, bnd, unitVars, recLog, alive, mem, imem, ssts,
                 desc, flush, restarts, started, lastMut, ackedVal, touched, zeroOnly>>

\* recordCh is drained: sync, then the callbacks are notified with its result
WLSync ==
  /\ alive
  /\ wl.pc = "more"
  /\ recordCh = <<>>
  /\ \E ok \in BOOLEAN :
       /\ ok \/ ioFails < bnd.io
       /\ ioFails' = IF ok THEN ioFails ELSE ioFails + 1
       /\ walFiles' = sync(walFiles, w.file, wbuf, ok)
       /\ wl' = [pc |-> IF callbacks = <<>> THEN "first" ELSE "notify", err |-> ~ok]
  /\ wbuf' = <<>>
  /\ hist' = SetSt(hist, SyncedIds(walFiles'), "synced")
  /\ UNCHANGED <<clock, descFiles, sstFiles, sstCtr, opts, bnd, unitVars, recLog, alive, mem, imem, ssts,
                 desc, w, recordCh, callbacks, flush, cl, restarts, started, cbLog,
                 lastMut, ackedVal, touched, zeroOnly>>

\* ---------------------------------------------------------------- apply
\* database.apply: the memtable after the mutation of log record l
apply(m, l) ==
  IF l.type = "PUT" THEN Insert(m, l.seq, l.key, l.ts, l.val)
  ELSE Insert(m, l.seq, l.key, l.ts, NILV)

\* database.maybeTriggerFlush: whether the memtable is swapped
maybeTriggerFlush(m, im) == m.size > opts.flush /\ im = <<>>

\* the process ends: everything in memory is gone
Halt ==
  /\ alive' = FALSE
  /\ mem' = New(0)
  /\ imem' = <<>>
  /\ ssts' = <<>>
  /\ desc' = NewDescriptor
  /\ w' = [nextSeq |-> 0, file |-> 0, size |-> 0]
  /\ wbuf' = <<>>
  /\ recordCh' = <<>>
  /\ callbacks' = <<>>
  /\ wl' = [pc |-> "first", err |-> FALSE]
  /\ flush' = IdleFlush
  /\ cl' = [c \in DOMAIN cl |-> IdleClient]
  /\ cbLog' = <<>>
  /\ lastMut' = [k \in StoreKeys |-> NoMut]
  /\ touched' = {}

\* one callback of the batch: with the error of sync, or, under the
\* database lock, apply and maybeTriggerFlush (swapMemtableLocked and the
\* start of flushIMemtable), then the caller's Set returns
WLCallback ==
  /\ alive
  /\ wl.pc = "notify"
  /\ callbacks # <<>>
  /\ LET e == Head(callbacks)
         m1 == apply(mem, e.l)
         swap == maybeTriggerFlush(m1, imem)
     IN IF wl.err
        THEN /\ cl' = [cl EXCEPT ![e.c].pc = "idle", ![e.c].res = "Internal"]
             /\ callbacks' = Tail(callbacks)
             /\ wl' = [wl EXCEPT !.pc = IF Tail(callbacks) = <<>> THEN "first" ELSE "notify"]
             /\ cbLog' = cbLog \o <<e.seq>>
             /\ UNCHANGED <<alive, mem, imem, ssts, desc, w, wbuf, recordCh, flush, hist,
                            lastMut, ackedVal, touched>>
        ELSE IF InsertFatal(mem.rows, e.l.key, e.l.ts)
        THEN /\ Halt
             /\ UNCHANGED <<hist, ackedVal>>
        ELSE /\ callbacks' = Tail(callbacks)
             /\ wl' = [wl EXCEPT !.pc = IF Tail(callbacks) = <<>> THEN "first" ELSE "notify"]
             /\ cbLog' = cbLog \o <<e.seq>>
             /\ mem' = IF swap THEN New(m1.upper) ELSE m1
             /\ imem' = IF swap THEN <<m1>> ELSE imem
             /\ flush' = IF swap THEN [IdleFlush EXCEPT !.pc = "write"] ELSE flush
             /\ cl' = [x \in DOMAIN cl |->
                         IF x = e.c THEN [cl[x] EXCEPT !.pc = "idle", !.res = "OK"]
                         ELSE IF swap /\ cl[x].pc = "read" /\ cl[x].live
                         THEN [cl[x] EXCEPT !.live = FALSE, !.smem = m1.rows]
                         ELSE cl[x]]
             /\ hist' = [hist EXCEPT ![e.id].acked = TRUE]
             /\ lastMut' = [lastMut EXCEPT ![e.l.key] =
                              [id |-> lastMut[e.l.key].id,
                               type |-> lastMut[e.l.key].type,
                               val |-> lastMut[e.l.key].val,
                               done |-> lastMut[e.l.key].done
                                        \/ lastMut[e.l.key].id = cl[e.c].mid,
                               last |-> cl[e.c].mid]]
             /\ ackedVal' = [ackedVal EXCEPT ![e.l.key] =
                               IF lastMut[e.l.key].id # cl[e.c].mid THEN PENDING
                               ELSE IF e.l.type = "PUT" THEN e.l.val ELSE NONE]
             /\ UNCHANGED <<alive, ssts, desc, w, wbuf, recordCh, touched>>
  /\ UNCHANGED <<clock, walFiles, descFiles, sstFiles, sstCtr, opts, bnd, unitVars, recLog, ioFails, restarts,
                 started, zeroOnly>>

\* ---------------------------------------------------------------- flush
\* flushIMemtable up to the reopening of the SST it wrote
FlushWrite ==
  /\ alive
  /\ flush.pc = "write"
  /\ sstFiles' = [f \in DOMAIN sstFiles \cup {sstCtr} |->
                    IF f = sstCtr THEN WriteSst(imem[1].rows) ELSE sstFiles[f]]
  /\ sstCtr' = sstCtr + 1
  /\ flush' = [pc |-> "publish", fn |-> sstCtr, applied |-> imem[1].upper]
  /\ UNCHANGED <<clock, walFiles, descFiles, opts, bnd, unitVars, recLog, alive, mem, imem, ssts, desc, w,
                 wbuf, recordCh, callbacks, wl, cl, ioFails, restarts, started, hist,
                 cbLog, lastMut, ackedVal, touched, zeroOnly>>

\* flushIMemtable under the database lock: the descriptor gets the new
\* SstMeta and is saved, the frozen memtable is dropped, the reader is listed
FlushPublish ==
  /\ alive
  /\ flush.pc = "publish"
  /\ LET d == [desc EXCEPT !.cur = @ \o <<[fn |-> flush.fn, applied |-> flush.applied]>>]
     IN /\ descFiles' = SaveFiles(descFiles, d)
        /\ desc' = [d EXCEPT !.version = @ + 1]
  /\ imem' = <<>>
  /\ ssts' = ssts \o <<flush.fn>>
  /\ flush' = IdleFlush
  /\ UNCHANGED <<clock, walFiles, sstFiles, sstCtr, opts, bnd, unitVars, recLog, alive, mem, w, wbuf,
                 recordCh, callbacks, wl, cl, ioFails, restarts, started, hist, cbLog,
                 lastMut, ackedVal, touched, zeroOnly>>

\* ------------------------------------------------------------------- Get
\* Server.Get: validateKey, then database.Find up to the release of the
\* read lock: the memtable and imemtable pointers and the list of readers
Get(c, k) ==
  /\ alive
  /\ cl[c].pc = "idle"
  /\ IF ~validateKey(k)
     THEN cl' = [cl EXCEPT ![c] = [IdleClient EXCEPT !.op = "GET", !.key = k,
                                                     !.res = "InvalidArgument"]]
     ELSE cl' = [cl EXCEPT ![c] =
                   [IdleClient EXCEPT !.pc = "read", !.op = "GET", !.key = k,
                                      !.live = TRUE,
                                      !.simem = IF imem = <<>> THEN <<>> ELSE <<imem[1].rows>>,
                                      !.sssts = ssts,
                                      !.exp = IF lastMut[k].done THEN lastMut[k].id ELSE 0]]
  /\ UNCHANGED <<clock, walFiles, descFiles, sstFiles, sstCtr, opts, bnd, unitVars, recLog, alive, mem, imem,
                 ssts, desc, w, wbuf, recordCh, callbacks, wl, flush, ioFails,
                 restarts, started, hist, cbLog, lastMut, ackedVal, touched, zeroOnly>>

\* the rest of database.Find and of Server.Get, reading the structures
\* whose pointers it holds
FindRead(c) ==
  /\ alive
  /\ cl[c].pc = "read"
  /\ LET k == cl[c].key
         memRows == IF cl[c].live THEN mem.rows ELSE cl[c].smem
         files == [i \in 1..Len(cl[c].sssts) |-> sstFiles[cl[c].sssts[i]]]
         r == dbFind(memRows, cl[c].simem, files, k)
     IN cl' = [cl EXCEPT ![c] =
                 [IdleClient EXCEPT !.op = "GET", !.key = k,
                                    !.res = IF r.val = NILV THEN "NotFound" ELSE "OK",
                                    !.out = r.val,
                                    !.hit = r.hit,
                                    !.seen = <<[mem |-> memRows, imem |-> cl[c].simem,
                                                ssts |-> files]>>,
                                    !.ryw = IF cl[c].exp # 0 /\ lastMut[k].id = cl[c].exp
                                            THEN lastMut[k] ELSE NoMut,
                                    !.dur = IF restarts > 0 /\ k \notin touched
                                               /\ ackedVal[k] # PENDING
                                            THEN ackedVal[k] ELSE NONE,
                                    !.zero = (zeroOnly[k] = "zero")]]
  /\ UNCHANGED <<clock, walFiles, descFiles, sstFiles, sstCtr, opts, bnd, unitVars, recLog, alive, mem, imem,
                 ssts, desc, w, wbuf, recordCh, callbacks, wl, flush, ioFails,
                 restarts, started, hist, cbLog, lastMut, ackedVal, touched, zeroOnly>>

\* ------------------------------------------------------------ stop, open
\* the process exits; the files stay as they are
Stop ==
  /\ alive
  /\ restarts < bnd.restarts
  /\ Halt
  /\ UNCHANGED <<clock, walFiles, descFiles, sstFiles, sstCtr, opts, bnd, unitVars, recLog, ioFails,
                 restarts, started, hist, ackedVal, zeroOnly>>

\* wal.Scanner over the log directory: the records of the files in
\* ascending order of their start sequence
RECURSIVE ScanAll(_, _)
ScanAll(files, names) ==
  IF names = {} THEN <<>>
  ELSE LET f == Min(names)
       IN files[f].recs \o ScanAll(files, names \ {f})

\* database.recoverLog: the loop over the scanned records from the i-th on
RECURSIVE recoverLoop(_, _, _, _)
recoverLoop(recs, i, m, seqNo) ==
  IF i > Len(recs) THEN [mem |-> m, seqNo |-> seqNo, fatal |-> FALSE, applied |-> <<>>]
  ELSE LET r == Unmarshal(recs[i])
       IN IF r.seq <= seqNo THEN recoverLoop(recs, i + 1, m, seqNo)
          ELSE IF InsertFatal(m.rows, r.key, r.ts)
          THEN [mem |-> m, seqNo |-> r.seq, fatal |-> TRUE, applied |-> <<>>]
          ELSE LET rest == recoverLoop(recs, i + 1, apply(m, r), r.seq)
               IN [rest EXCEPT !.applied = <<recs[i].id>> \o @]

\* database.recoverLog: the memtable replayed and the value it returns
recoverLog(files, lastApplied) ==
  recoverLoop(ScanAll(files, DOMAIN files), 1, New(lastApplied), lastApplied)

\* newDatabase: the highest AppliedUntil of the descriptor
lastAppliedOf(d) == Max({0} \cup {d.cur[i].applied : i \in 1..Len(d.cur)})

\* newDatabase: descriptor, readers, recovery, a new wal.Writer
Open ==
  /\ ~alive
  /\ restarts < bnd.restarts
  /\ ~LoadFails(descFiles)
  /\ LET d == LoadDescriptor(descFiles)
         lastApplied == lastAppliedOf(d)
         rec == recoverLog(walFiles, lastApplied)
         swap == maybeTriggerFlush(rec.mem, <<>>)
         nextSeq == rec.seqNo
     IN /\ \A i \in 1..Len(d.cur) : d.cur[i].fn \in DOMAIN sstFiles
        /\ ~rec.fatal
        /\ desc' = d
        /\ ssts' = [i \in 1..Len(d.cur) |-> d.cur[i].fn]
        /\ mem' = IF swap THEN New(rec.mem.upper) ELSE rec.mem
        /\ imem' = IF swap THEN <<rec.mem>> ELSE <<>>
        /\ flush' = IF swap THEN [IdleFlush EXCEPT !.pc = "write"] ELSE IdleFlush
        /\ w' = [nextSeq |-> nextSeq, file |-> nextSeq, size |-> 0]
        /\ walFiles' = Create(walFiles, nextSeq)
        /\ recLog' = [last |-> lastApplied,
                      scanned |-> [i \in 1..Len(ScanAll(walFiles, DOMAIN walFiles)) |->
                                     [id |-> ScanAll(walFiles, DOMAIN walFiles)[i].id,
                                      seq |-> ScanAll(walFiles, DOMAIN walFiles)[i].seq]],
                      applied |-> rec.applied]
  /\ alive' = TRUE
  /\ restarts' = restarts + 1
  /\ UNCHANGED <<clock, descFiles, sstFiles, sstCtr, opts, bnd, unitVars, wbuf, recordCh,
                 callbacks,
                 wl, cl, ioFails, started, hist, cbLog, lastMut, ackedVal, touched,
                 zeroOnly>>

\* -------------------------------------------------------- specifications
\* Each specification runs the same actions; they differ in the callers,
\* the inputs and the limits of the run.

\* --- restart: one caller, stop and newDatabase, flush
RestartOps == 2
RestartClock == 1
RestartRestarts == 1
RestartKeys == {"a", "b"}
RestartValues == {NILV, EMPTY, "x"}

InitRestart ==
  \E o \in [flush : {0, 1}, target : {0, 1}] :
    InitWith(1, o, [ops |-> RestartOps, clock |-> RestartClock,
                    restarts |-> RestartRestarts, io |-> 0])

NextRestart ==
  \/ Tick
  \/ \E c \in DOMAIN cl, k \in RestartKeys, v \in RestartValues : Set(c, k, v)
  \/ \E c \in DOMAIN cl : WriterAppend(c)
  \/ WLWrite
  \/ WLSync
  \/ WLCallback
  \/ FlushWrite
  \/ FlushPublish
  \/ \E c \in DOMAIN cl, k \in RestartKeys : Get(c, k)
  \/ \E c \in DOMAIN cl : FindRead(c)
  \/ Stop
  \/ Open

SpecRestart == InitRestart /\ [][NextRestart]_vars

\* --- concurrent callers of one key: swap, flush and reads, no restart
ConcClients == 2
ConcOps == 2
ConcClock == 1
ConcKeys == {"a"}
ConcValues == {EMPTY, "x"}

InitConc ==
  InitWith(ConcClients, [flush |-> 0, target |-> 1],
           [ops |-> ConcOps, clock |-> ConcClock, restarts |-> 0, io |-> 0])

NextConc ==
  \/ Tick
  \/ \E c \in DOMAIN cl, k \in ConcKeys, v \in ConcValues : Set(c, k, v)
  \/ \E c \in DOMAIN cl, k \in ConcKeys : Delete(c, k)
  \/ \E c \in DOMAIN cl : WriterAppend(c)
  \/ WLWrite
  \/ WLSync
  \/ WLCallback
  \/ FlushWrite
  \/ FlushPublish
  \/ \E c \in DOMAIN cl, k \in ConcKeys : Get(c, k)
  \/ \E c \in DOMAIN cl : FindRead(c)

SpecConc == InitConc /\ [][NextConc]_vars

\* --- the WAL writer under concurrent Appends, rollover and failing fsync
WalClients == 2
WalOps == 3
WalIOFailures == 1
WalKeys == {"a", "b"}

InitWal ==
  \E t \in {0, 1} :
    InitWith(WalClients, [flush |-> WalOps, target |-> t],
             [ops |-> WalOps, clock |-> 0, restarts |-> 0, io |-> WalIOFailures])

NextWal ==
  \/ \E c \in DOMAIN cl, k \in WalKeys : Set(c, k, "x")
  \/ \E c \in DOMAIN cl : WriterAppend(c)
  \/ WLWrite
  \/ WLSync
  \/ WLCallback

SpecWal == InitWal /\ [][NextWal]_vars

\* --- the limits of keys and values: one caller, no restart
LimitsOps == 2
LimitsClock == 1
LimitsKeys == {"", "a", "a4096", "a4097"}
LimitsValues == {EMPTY, "x", "v524288", "v524289"}

InitLimits ==
  InitWith(1, [flush |-> 0, target |-> 0],
           [ops |-> LimitsOps, clock |-> LimitsClock, restarts |-> 0, io |-> 0])

NextLimits ==
  \/ Tick
  \/ \E c \in DOMAIN cl, k \in LimitsKeys, v \in LimitsValues : Set(c, k, v)
  \/ \E c \in DOMAIN cl : WriterAppend(c)
  \/ WLWrite
  \/ WLSync
  \/ WLCallback
  \/ FlushWrite
  \/ FlushPublish
  \/ \E c \in DOMAIN cl, k \in LimitsKeys : Get(c, k)
  \/ \E c \in DOMAIN cl : FindRead(c)

SpecLimits == InitLimits /\ [][NextLimits]_vars

\* ----------------------------------------------------------------- claims
\* a caller whose Get has returned with the result of database.Find
Returned(c) == cl[c].pc = "idle" /\ cl[c].op = "GET" /\ cl[c].res \in {"OK", "NotFound"}

\* the records that are in some WAL segment on disk
OnDiskIds(files) ==
  UNION {{files[f].recs[i].id : i \in 1..Len(files[f].recs)} : f \in DOMAIN files}

\* C1: after the engine was stopped and opened again, Find of a key returns
\* the value of the last successful Set of that key (checked for keys that
\* had no Set in flight at the stop and none since the open).
C1_DurableAcrossRestart ==
  \A c \in DOMAIN cl :
    (Returned(c) /\ cl[c].dur # NONE) => cl[c].out = cl[c].dur

\* C2: every acknowledged log record with sequence s is covered by an SST
\* of the current descriptor with applied_until >= s, or is in a WAL segment
\* on disk.
C2_AckedInSstOrWal ==
  \A i \in DOMAIN hist :
    hist[i].acked =>
      \/ \E j \in 1..Len(LoadDescriptor(descFiles).cur) :
           LoadDescriptor(descFiles).cur[j].applied >= hist[i].seq
      \/ i \in OnDiskIds(walFiles)

\* C8: a Set with a zero-length value is a Put: when every mutation of k was
\* such a Set and Find finds an entry for k, in whatever layer and also
\* after recovery from the WAL, it returns the empty value and not absent.
C8_EmptyValueIsPut ==
  \A c \in DOMAIN cl :
    (Returned(c) /\ cl[c].zero /\ cl[c].hit) => cl[c].out = EMPTY

\* C10: sequence numbers are strictly increasing over the life of the
\* directory: the log records written to the WAL, in the order they were
\* formed, carry strictly ascending sequence numbers, also across restarts.
C10_SequenceStrictlyIncreasing ==
  \A i, j \in DOMAIN hist :
    (i < j /\ hist[i].st \in {"written", "synced"} /\ hist[j].st \in {"written", "synced"})
      => hist[i].seq < hist[j].seq

\* C3: read-your-writes: the Get began after the Set(k, v) started last
\* had returned success, that Set was also the last one applied (so it is
\* the latest in start order and in LSN order), and no mutation of k was
\* started before the Get returned; then Find(k) returns v.
C3_ReadYourWrites ==
  \A c \in DOMAIN cl :
    (Returned(c) /\ cl[c].ryw.type = "PUT" /\ cl[c].ryw.last = cl[c].ryw.id)
      => cl[c].out = cl[c].ryw.val

\* C6: the mutation of k started last and applied last is a Delete that has
\* returned, and none was started before the Get returned; then Find(k)
\* returns absent, whichever layers hold the tombstone and older Puts.
C6_TombstoneHides ==
  \A c \in DOMAIN cl :
    (Returned(c) /\ cl[c].ryw.type = "DELETE" /\ cl[c].ryw.last = cl[c].ryw.id)
      => cl[c].out = NILV

\* the versions of key k in the layers Find read: <<timestamp, value>>
VersionsSeen(seen, k) ==
  {<<seen.mem[i].ts, seen.mem[i].val>> : i \in {i \in 1..Len(seen.mem) : seen.mem[i].key = k}}
  \cup (IF seen.imem = <<>> THEN {}
        ELSE {<<seen.imem[1][i].ts, seen.imem[1][i].val>> :
                i \in {i \in 1..Len(seen.imem[1]) : seen.imem[1][i].key = k}})
  \cup UNION {{<<seen.ssts[f][i].ts, DecodeCell(seen.ssts[f][i].cell)>> :
                 i \in {i \in 1..Len(seen.ssts[f]) : seen.ssts[f][i].key = k}} :
              f \in 1..Len(seen.ssts)}

\* C7: Find(k) returns the value of a version of k with the greatest
\* timestamp among the versions in the memtable, the frozen memtable and
\* the SSTs it read.
C7_GreatestTimestampWins ==
  \A c \in DOMAIN cl :
    Returned(c) =>
      LET vs == VersionsSeen(cl[c].seen[1], cl[c].key)
      IN vs # {} =>
           \E v \in vs : v[2] = cl[c].out /\ \A u \in vs : u[1] <= v[1]

\* C5: the callbacks of a writer created with starting sequence 0 are
\* invoked in ascending sequence order without gaps: the j-th callback
\* invoked belongs to the record with sequence j - 1.
C5_CallbacksInSequenceOrder ==
  \A j \in DOMAIN cbLog : cbLog[j] = j - 1

\* C4 as the spec states it: a Set has returned success only if its record
\* and every record with a smaller sequence number is in the fsynced part of
\* a WAL segment.
C4_AllSmallerRecordsSynced ==
  \A i \in DOMAIN hist :
    hist[i].acked =>
      \A j \in DOMAIN hist :
        hist[j].seq <= hist[i].seq => j \in SyncedIds(walFiles)

\* C4 amended: a Set has returned success only if its record, and every
\* record with a smaller sequence number whose write did not fail, is in
\* the fsynced part of a WAL segment.
C4_WrittenSmallerRecordsSynced ==
  \A i \in DOMAIN hist :
    hist[i].acked =>
      \A j \in DOMAIN hist :
        (hist[j].seq <= hist[i].seq /\ hist[j].st # "failed")
          => j \in SyncedIds(walFiles)

\* a Set has returned success after the write of a record with a smaller
\* sequence number had failed
C4_Witness ==
  \E i, j \in DOMAIN hist :
    hist[i].acked /\ hist[j].seq < hist[i].seq /\ hist[j].st = "failed"

\* C9: Set with an empty key, a key of more than 4096 bytes or a value of
\* more than 524288 bytes, and Get with such a key, return InvalidArgument,
\* every other Set and Get is accepted, and the step that returns
\* InvalidArgument changes nothing but the caller's result.
C9_Invalid(c) ==
  \/ KeyLen(cl[c].key) = 0
  \/ KeyLen(cl[c].key) > 4096
  \/ cl[c].op = "PUT" /\ ValueLen(cl[c].val) > 524288

C9_LimitsEnforced ==
  /\ [](\A c \in DOMAIN cl :
          cl[c].op # NONE => (cl[c].res = "InvalidArgument" <=> C9_Invalid(c)))
  /\ [][\A c \in DOMAIN cl :
          (cl'[c] # cl[c] /\ cl'[c].res = "InvalidArgument")
            => UNCHANGED <<walFiles, descFiles, sstFiles, mem, imem, ssts, desc, w,
                           wbuf, recordCh, callbacks, wl, flush, hist, started>>]_vars

\* a key of 4096 bytes with a value of 524288 bytes was accepted and
\* acknowledged, and a later request was refused
C9_Witness ==
  /\ ackedVal["a4096"] = "v524288"
  /\ \E c \in DOMAIN cl : cl[c].res = "InvalidArgument"

\* --- recovery of a log written over several runs: one caller, no reads
RecoverOps == 3
RecoverRestarts == 2
RecoverKeys == {"a", "b", "a4096"}

InitRecover ==
  \E f \in {0, RecoverOps} :
    InitWith(1, [flush |-> f, target |-> 1],
             [ops |-> RecoverOps, clock |-> 0, restarts |-> RecoverRestarts, io |-> 0])

NextRecover ==
  \/ \E c \in DOMAIN cl, k \in RecoverKeys : Set(c, k, "x")
  \/ \E c \in DOMAIN cl : WriterAppend(c)
  \/ WLWrite
  \/ WLSync
  \/ WLCallback
  \/ FlushWrite
  \/ FlushPublish
  \/ Stop
  \/ Open

SpecRecover == InitRecover /\ [][NextRecover]_vars

\* the scanned records with sequence greater than last, in scan order
AfterLast(scanned, last) ==
  SelectSeq(scanned, LAMBDA r : r.seq > last)

\* C11: recovery applies exactly the scanned WAL records whose sequence is
\* greater than lastApplied, each once and in ascending sequence order, and
\* skips the others.
C11_RecoveryAppliesNewerRecords ==
  restarts > 0 =>
    /\ recLog.applied = [i \in 1..Len(AfterLast(recLog.scanned, recLog.last)) |->
                           AfterLast(recLog.scanned, recLog.last)[i].id]
    /\ \A i, j \in 1..Len(AfterLast(recLog.scanned, recLog.last)) :
         i < j => AfterLast(recLog.scanned, recLog.last)[i].seq
                    < AfterLast(recLog.scanned, recLog.last)[j].seq

\* --------------------------------------------------- descriptor claims
\* the process stops inside Descriptor.Save: after os.Create of the next file
\* and before the buffered bytes are flushed, or after f.Sync and before the
\* old file is removed
StopInSave ==
  /\ alive
  /\ flush.pc = "publish"
  /\ restarts < bnd.restarts
  /\ LET d == [desc EXCEPT !.cur = @ \o <<[fn |-> flush.fn, applied |-> flush.applied]>>]
         nextFn == d.version + 1
     IN \E point \in {"created", "synced"} :
          descFiles' = [v \in DOMAIN descFiles \cup {nextFn} |->
                          IF v = nextFn
                          THEN IF point = "created" THEN TORN ELSE d.cur
                          ELSE descFiles[v]]
  /\ Halt
  /\ UNCHANGED <<clock, walFiles, sstFiles, sstCtr, opts, bnd, unitVars, recLog, ioFails,
                 restarts, started, hist, ackedVal, zeroOnly>>

\* --- descriptor saves over several runs: every record is flushed
DescOps == 3
DescRestarts == 2
DescKeys == {"a", "b", "a4096"}

InitDesc ==
  InitWith(1, [flush |-> 0, target |-> 1],
           [ops |-> DescOps, clock |-> 0, restarts |-> DescRestarts, io |-> 0])

NextDesc ==
  \/ \E c \in DOMAIN cl, k \in DescKeys : Set(c, k, "x")
  \/ \E c \in DOMAIN cl : WriterAppend(c)
  \/ WLWrite
  \/ WLSync
  \/ WLCallback
  \/ FlushWrite
  \/ FlushPublish
  \/ Stop
  \/ StopInSave
  \/ Open

SpecDesc == InitDesc /\ [][NextDesc]_vars

\* C12: every Save writes a file whose version is greater than that of every
\* descriptor file already in the directory, also after a load on restart, and
\* the highest numbered file, which Load picks, holds the content of the most
\* recent successful Save.
C12_SaveVersionAboveAll ==
  /\ [](alive => LoadDescriptor(descFiles).cur = desc.cur)
  /\ [][\A n \in DOMAIN descFiles' :
          (n \notin DOMAIN descFiles \/ descFiles'[n] # descFiles[n])
            => \A v \in DOMAIN descFiles : n > v]_vars

\* C13: when the process stops, also in the middle of Descriptor.Save, a later
\* Load does not fail and returns the complete previous descriptor or the
\* complete new one.
C13_StopInSaveLeavesWholeDescriptor ==
  [][(alive /\ ~alive') =>
       /\ ~LoadFails(descFiles')
       /\ LoadDescriptor(descFiles').cur \in
            {LoadDescriptor(descFiles).cur,
             desc.cur \o <<[fn |-> flush.fn, applied |-> flush.applied]>>}]_vars

\* ------------------------------------------------------ wal.Writer.Close
\* Close is called: its caller blocks on the send to closeCh
CloseCall ==
  /\ alive
  /\ cw.pc = "none"
  /\ cw' = [pc |-> "called", before |-> Len(hist)]
  /\ UNCHANGED <<moreUnits, sc, gc, sl, mt,clock, walFiles, descFiles, sstFiles, sstCtr, opts, bnd, recLog, alive,
                 mem, imem, ssts, desc, w, wbuf, recordCh, callbacks, wl, flush, cl,
                 ioFails, restarts, started, hist, cbLog, lastMut, ackedVal, touched,
                 zeroOnly>>

\* writeLoop takes the closeCh case of its first select, which it may do
\* whether or not recordCh holds records: it leaves the loop, flushes the
\* buffer and closes the file, and Close returns the result
WLClose ==
  /\ alive
  /\ cw.pc = "called"
  /\ wl.pc = "first"
  /\ walFiles' = FlushBuf(walFiles, w.file, wbuf)
  /\ wbuf' = <<>>
  /\ wl' = [pc |-> "closed", err |-> FALSE]
  /\ cw' = [cw EXCEPT !.pc = "returned"]
  /\ UNCHANGED <<moreUnits, sc, gc, sl, mt,clock, descFiles, sstFiles, sstCtr, opts, bnd, recLog, alive, mem, imem,
                 ssts, desc, w, recordCh, callbacks, flush, cl, ioFails, restarts,
                 started, hist, cbLog, lastMut, ackedVal, touched, zeroOnly>>

\* --- a writer that is closed: two callers, no I/O errors, no restart
CloseClients == 2
CloseOps == 2
CloseKeys == {"a", "b"}
CloseValues == {EMPTY, "x"}

InitClose ==
  \E t \in {0, 1} :
    InitWith(CloseClients, [flush |-> CloseOps, target |-> t],
             [ops |-> CloseOps, clock |-> 0, restarts |-> 0, io |-> 0])

NextClose ==
  \/ \E c \in DOMAIN cl, k \in CloseKeys, v \in CloseValues : Set(c, k, v)
  \/ \E c \in DOMAIN cl : WriterAppend(c)
  \/ WLWrite
  \/ WLSync
  \/ WLCallback
  \/ CloseCall
  \/ WLClose

SpecClose == InitClose /\ [][NextClose]_vars

\* proto.Equal of two log records: a zero-length value equals an unset one
ProtoEqual(a, b) ==
  /\ a.seq = b.seq
  /\ a.key = b.key
  /\ a.ts = b.ts
  /\ a.type = b.type
  /\ (a.val = b.val \/ (ValueLen(a.val) = 0 /\ ValueLen(b.val) = 0))

\* history: the records appended and acknowledged, in append order
AckedIds == SelectSeq([i \in 1..Len(hist) |-> i], LAMBDA i : hist[i].acked)

\* the acknowledged records among those a Scanner over the directory returns
ScannedAcked ==
  SelectSeq(ScanAll(walFiles, DOMAIN walFiles), LAMBDA r : hist[r.id].acked)

\* C14: the records appended and acknowledged, read back by a Scanner after
\* Close, come back complete, equal to what was appended with the sequence
\* numbers assigned, and in append order, also across segments.
C14_ScanReturnsAppended ==
  cw.pc = "returned" =>
    /\ Len(ScannedAcked) = Len(AckedIds)
    /\ \A i \in 1..Len(AckedIds) :
         i <= Len(ScannedAcked) =>
           /\ ScannedAcked[i].id = AckedIds[i]
           /\ ProtoEqual(Unmarshal(ScannedAcked[i]), hist[AckedIds[i]].l)

\* C14 witness: Close has returned with acknowledged records in two segments,
\* one of them with a zero-length value
C14_Witness ==
  /\ cw.pc = "returned"
  /\ Len(AckedIds) >= 2
  /\ \E f, g \in DOMAIN walFiles :
       f # g /\ walFiles[f].synced > 0 /\ walFiles[g].synced > 0
  /\ \E i \in 1..Len(hist) : hist[i].acked /\ hist[i].l.val = EMPTY

\* C18: when Close returns, every record handed to Append before Close was
\* called is written, flushed and synced and has had its callback invoked.
C18_CloseDrains ==
  cw.pc = "returned" =>
    \A i \in 1..cw.before :
      /\ i \in SyncedIds(walFiles)
      /\ \E j \in 1..Len(cbLog) : cbLog[j] = hist[i].seq

\* ------------------------------------------------------------ wal.Scanner
\* a segment as bytes: whole frames, each with a payload whose checksum
\* matches (crc) or not, then the first "tail" bytes of one more frame
HeaderLen == 8
PayloadLen == 2

\* io.ReadFull of want bytes when avail bytes remain
ReadFullAnyEOF(avail, want) ==
  IF avail >= want THEN "nil" ELSE "EOF"

ReadFull(avail, want) ==
  IF avail >= want THEN "nil"
  ELSE IF avail = 0 THEN "EOF"
  ELSE "ErrUnexpectedEOF"

\* fileScanner.Scan called until it returns false, from the i-th frame on:
\* the records returned and fileScanner.Err
RECURSIVE fileScan(_, _)
fileScan(seg, i) ==
  IF i <= Len(seg.frames)
  THEN IF ~seg.frames[i].crc THEN [recs |-> <<>>, err |-> "checksum"]
       ELSE LET rest == fileScan(seg, i + 1)
            IN [rest EXCEPT !.recs = <<seg.frames[i].id>> \o @]
  ELSE LET h == ReadFull(Min({seg.tail, HeaderLen}), HeaderLen)
       IN IF h = "EOF" THEN [recs |-> <<>>, err |-> "nil"]
          ELSE IF h # "nil" THEN [recs |-> <<>>, err |-> h]
          ELSE [recs |-> <<>>, err |-> ReadFull(seg.tail - HeaderLen, PayloadLen)]

\* Scanner.Scan called until it returns false, from the idx-th file on: the
\* records returned, Scanner.Err and the number of files opened
RECURSIVE ScanDir(_, _)
ScanDir(dir, idx) ==
  IF idx > Len(dir) THEN [recs |-> <<>>, err |-> "nil", opened |-> idx - 1]
  ELSE LET r == fileScan(dir[idx], 1)
       IN IF r.err # "nil" THEN [recs |-> r.recs, err |-> r.err, opened |-> idx]
          ELSE LET rest == ScanDir(dir, idx + 1)
               IN [rest EXCEPT !.recs = r.recs \o @]

\* the scan of the whole directory
ScanRun ==
  /\ ~sc.done
  /\ LET r == ScanDir(sc.dir, 1)
     IN sc' = [dir |-> sc.dir, done |-> TRUE, recs |-> r.recs, err |-> r.err,
               opened |-> r.opened]
  /\ UNCHANGED <<engineVars, moreUnits,cw, gc, sl, mt>>

\* --- a Scanner over up to MaxSegments segments of up to MaxFrames frames
MaxSegments == 2
MaxFrames == 2

Frames ==
  UNION {[1..n -> [id : {1}, crc : BOOLEAN]] : n \in 0..MaxFrames}

\* bytes of a last frame cut short: none, part of the header, the header
\* alone, the header and part of the payload
Tails == {0, 1, HeaderLen - 1, HeaderLen, HeaderLen + PayloadLen - 1}

Segments == [frames : Frames, tail : Tails]

\* the frames numbered in directory order
Numbered(dir) ==
  [s \in 1..Len(dir) |->
     [dir[s] EXCEPT !.frames = [i \in 1..Len(dir[s].frames) |->
                                  [dir[s].frames[i] EXCEPT !.id = s * 10 + i]]]]

InitScan ==
  /\ InitEngine(1, [flush |-> 0, target |-> 0],
                [ops |-> 0, clock |-> 0, restarts |-> 0, io |-> 0])
  /\ MoreIdle
  /\ cw = NoClose
  /\ gc = NoGc
  /\ sl = NoList
  /\ mt = NoTable
  /\ \E n \in 1..MaxSegments : \E d \in [1..n -> Segments] :
       sc = [NoScan EXCEPT !.dir = Numbered(d)]

NextScan == ScanRun

SpecScan == InitScan /\ [][NextScan]_vars

\* how a segment ends: at a frame whose checksum does not match, inside a
\* payload, inside a header, or at a frame boundary
Ending(seg) ==
  IF \E i \in 1..Len(seg.frames) : ~seg.frames[i].crc THEN "crc"
  ELSE IF seg.tail >= HeaderLen THEN "payload"
  ELSE IF seg.tail > 0 THEN "header"
  ELSE "boundary"

\* the records of a segment before its first frame that does not check
GoodPrefix(seg) ==
  LET bad == {i \in 1..Len(seg.frames) : ~seg.frames[i].crc}
      n == IF bad = {} THEN Len(seg.frames) ELSE Min(bad) - 1
  IN [i \in 1..n |-> seg.frames[i].id]

RECURSIVE Concat(_)
Concat(ss) == IF ss = <<>> THEN <<>> ELSE Head(ss) \o Concat(Tail(ss))

\* the scan that stops with an error at the first segment whose ending is
\* in errs and passes every other segment end without error
ScanStopsAt(errs) ==
  LET dir == sc.dir
      bad == {s \in 1..Len(dir) : Ending(dir[s]) \in errs}
      last == IF bad = {} THEN Len(dir) ELSE Min(bad)
  IN /\ sc.opened = last
     /\ (sc.err # "nil") = (bad # {})
     /\ sc.recs = Concat([s \in 1..last |-> GoodPrefix(dir[s])])

\* C15 as stated: a segment that ends inside a frame header, with fewer than
\* 8 bytes left, is a clean end and the scan goes on with the next segment; a
\* short payload or a checksum mismatch stops the scan with an error.
C15_ShortHeaderIsCleanEnd ==
  sc.done => ScanStopsAt({"crc", "payload"})

\* C15 amended: only a segment that ends at a frame boundary, with no byte
\* left, is a clean end after which the scan goes on with the next segment; a
\* header cut short (1 to 7 bytes), a short payload or a checksum mismatch
\* stops the scan with an error.
C15_FrameBoundaryIsCleanEnd ==
  sc.done => ScanStopsAt({"crc", "payload", "header"})

\* C15 witness: the first segment ends at a frame boundary and the scan went
\* on to the second, which ends inside a header and gave an error
C15_Witness ==
  /\ sc.done
  /\ Len(sc.dir) = 2
  /\ Ending(sc.dir[1]) = "boundary"
  /\ Len(sc.dir[1].frames) > 0
  /\ Ending(sc.dir[2]) = "header"
  /\ sc.opened = 2
  /\ sc.err = "ErrUnexpectedEOF"

\* ------------------------------------------------------ CleanUnusedFiles
\* listLogFiles: the file that follows f in ascending start sequence
HasSuccessor(files, f) == \E g \in DOMAIN files : g > f

Successor(files, f) == Min({g \in DOMAIN files : g > f})

\* the loop with the guard i > 1: the first file is never removed
CleanFromSecond(files, appliedUntil) ==
  LET removed == {f \in DOMAIN files :
                    /\ HasSuccessor(files, f)
                    /\ Successor(files, f) < appliedUntil
                    /\ f # Min(DOMAIN files)}
  IN [f \in DOMAIN files \ removed |-> files[f]]

\* CleanUnusedFiles: the directory after the pass, which removes
\* parsedNames[i-1] for every i > 0 with parsedNames[i].seqNo < appliedUntil
CleanUnusedFiles(files, appliedUntil) ==
  LET removed == {f \in DOMAIN files :
                    /\ HasSuccessor(files, f)
                    /\ Successor(files, f) < appliedUntil}
  IN [f \in DOMAIN files \ removed |-> files[f]]

\* one GC pass over the log directory of the running process
GcPass(appliedUntil) ==
  /\ alive
  /\ ~gc.ran
  /\ walFiles' = CleanUnusedFiles(walFiles, appliedUntil)
  /\ gc' = [ran |-> TRUE, applied |-> appliedUntil, before |-> walFiles,
            after |-> walFiles', cur |-> w.file]
  /\ UNCHANGED <<clock, descFiles, sstFiles, sstCtr, opts, bnd, cw, sc, sl, mt, moreUnits, recLog, alive,
                 mem, imem, ssts, desc, w, wbuf, recordCh, callbacks, wl, flush, cl,
                 ioFails, restarts, started, hist, cbLog, lastMut, ackedVal, touched,
                 zeroOnly>>

\* --- a log of several segments, written over two runs, with one GC pass
GcOps == 3
GcRestarts == 1
GcKeys == {"a", "b", "a4096"}

InitGc ==
  /\ InitEngine(1, [flush |-> GcOps, target |-> 0],
                [ops |-> GcOps, clock |-> 0, restarts |-> GcRestarts, io |-> 0])
  /\ MoreIdle
  /\ cw = NoClose
  /\ sc = NoScan
  /\ gc = NoGc
  /\ sl = NoList
  /\ mt = NoTable

NextGc ==
  \/ \E c \in DOMAIN cl, k \in GcKeys : Set(c, k, "x")
  \/ \E c \in DOMAIN cl : WriterAppend(c)
  \/ WLWrite
  \/ WLSync
  \/ WLCallback
  \/ Stop
  \/ Open
  \/ \E a \in 0..(GcOps + 1) : GcPass(a)

SpecGc == InitGc /\ [][NextGc]_vars

C17_KeepsNeededSegments ==
  gc.ran =>
    \A f \in DOMAIN gc.before \ DOMAIN gc.after :
      /\ f # gc.cur
      /\ \A i \in 1..Len(gc.before[f].recs) : gc.before[f].recs[i].seq <= gc.applied

\* C17 witness: a pass deleted a segment that holds a record, after a restart
C17_Witness ==
  /\ gc.ran
  /\ restarts > 0
  /\ \E f \in DOMAIN gc.before \ DOMAIN gc.after : Len(gc.before[f].recs) > 0

\* --------------------------------------------------- Memtable as a skip list
\* nodes are numbered in the order they are made; node HEAD is m.head and NIL
\* is the nil pointer; a node's number stands for its value
NIL == -1
HEAD == 0

\* maxLevel, and the nodes, keys and timestamps of the model
ListLevels == 2
ListNodes == 3
ListKeys == {"a", "b"}
ListStamps == {1, 2}

\* math.MaxInt64: above every timestamp
TopStamp == 1000000

NilNext == [l \in 0..(ListLevels - 1) |-> NIL]
NoLevel == [l \in 0..(ListLevels - 1) |-> FALSE]

\* New: the head node, which has every level
HeadNode ==
  [key |-> "", ts |-> 0, level |-> ListLevels - 1, next |-> NilNext,
   stored |-> NoLevel, linked |-> NoLevel]

IdleInsert == [pc |-> "idle", n |-> NIL, prev |-> NilNext, j |-> 0]

IdleFind == [pc |-> "idle", key |-> "", c |-> HEAD, cl |-> 0, nx |-> NIL, res |-> NIL]

\* no Iterator has been made
IdleIter == [pc |-> "none", n |-> HEAD, out |-> <<>>, base |-> 0, busy |-> FALSE]

NewList ==
  [nodes |-> [n \in {HEAD} |-> HeadNode], ins |-> IdleInsert, rd |-> IdleFind,
   it |-> IdleIter]

\* the loop condition with the timestamps compared the other way round
BeforeAscending(n, key, timestamp) ==
  \/ KeyRank(n.key) < KeyRank(key)
  \/ (n.key = key /\ n.ts < timestamp)

\* the loop condition of findGreaterOrEqual: node n sorts before (key, timestamp)
Before(n, key, timestamp) ==
  \/ KeyRank(n.key) < KeyRank(key)
  \/ (n.key = key /\ n.ts > timestamp)

\* findGreaterOrEqual: the inner loop at level l from node c
RECURSIVE WalkLevel(_, _, _, _, _)
WalkLevel(nodes, c, l, key, timestamp) ==
  LET nextAtLevel == nodes[c].next[l]
  IN IF nextAtLevel # NIL /\ Before(nodes[nextAtLevel], key, timestamp)
     THEN WalkLevel(nodes, nextAtLevel, l, key, timestamp)
     ELSE c

\* findGreaterOrEqual: prev[l]
RECURSIVE PrevAt(_, _, _, _)
PrevAt(nodes, l, key, timestamp) ==
  IF l = ListLevels - 1 THEN WalkLevel(nodes, HEAD, l, key, timestamp)
  ELSE WalkLevel(nodes, PrevAt(nodes, l + 1, key, timestamp), l, key, timestamp)

\* Insert up to its loop, under m.mu: findGreaterOrEqual, pickLevel, newNode
InsertStart(key, timestamp, level) ==
  /\ sl.ins.pc = "idle"
  /\ Cardinality(DOMAIN sl.nodes) <= ListNodes
  /\ LET prev == [l \in 0..(ListLevels - 1) |-> PrevAt(sl.nodes, l, key, timestamp)]
         n == sl.nodes[prev[0]].next[0]
         id == Cardinality(DOMAIN sl.nodes)
     IN /\ ~(n # NIL /\ sl.nodes[n].ts = timestamp /\ sl.nodes[n].key = key)
        /\ sl' = [sl EXCEPT
                    !.nodes = (id :> [key |-> key, ts |-> timestamp, level |-> level,
                                      next |-> NilNext, stored |-> NoLevel,
                                      linked |-> NoLevel]) @@ sl.nodes,
                    !.ins = [pc |-> "store", n |-> id, prev |-> prev, j |-> 0]]
  /\ UNCHANGED <<engineVars, moreUnits,cw, sc, gc, mt>>

\* the level that the j-th iteration links, from the top down
LevelAtTopDown(j, level) == level - j

\* the level that the j-th iteration of Insert's loop links
LevelAt(j, level) == j

\* one atomic store of Insert's loop: the new node's next pointer, then its
\* predecessor's
InsertStore ==
  /\ sl.ins.pc \in {"store", "link"}
  /\ LET n == sl.ins.n
         i == LevelAt(sl.ins.j, sl.nodes[n].level)
         p == sl.ins.prev[i]
     IN IF sl.ins.pc = "store"
        THEN sl' = [sl EXCEPT !.nodes[n].next[i] = sl.nodes[p].next[i],
                              !.nodes[n].stored[i] = TRUE,
                              !.ins.pc = "link"]
        ELSE sl' = [sl EXCEPT !.nodes[p].next[i] = n,
                              !.nodes[n].linked[i] = TRUE,
                              !.ins = IF sl.ins.j = sl.nodes[n].level THEN IdleInsert
                                      ELSE [sl.ins EXCEPT !.pc = "store", !.j = @ + 1]]
  /\ UNCHANGED <<engineVars, moreUnits,cw, sc, gc, mt>>

\* Find is called: findGreaterOrEqual starts at the head and the top level
FindStart(key) ==
  /\ sl.rd.pc \in {"idle", "done"}
  /\ sl' = [sl EXCEPT !.rd = [pc |-> "load", key |-> key, c |-> HEAD,
                              cl |-> ListLevels - 1, nx |-> NIL, res |-> NIL]]
  /\ UNCHANGED <<engineVars, moreUnits,cw, sc, gc, mt>>

\* findGreaterOrEqual: c.atomicLoadNext(cl); a node has no next[cl] above
\* its level
FindLoad ==
  /\ sl.rd.pc = "load"
  /\ sl' = IF sl.rd.cl > sl.nodes[sl.rd.c].level
           THEN [sl EXCEPT !.rd.pc = "panic"]
           ELSE [sl EXCEPT !.rd.nx = sl.nodes[sl.rd.c].next[sl.rd.cl],
                           !.rd.pc = "compare"]
  /\ UNCHANGED <<engineVars, moreUnits,cw, sc, gc, mt>>

\* findGreaterOrEqual: the loop condition on the node loaded, the step down
\* a level, and at the bottom Find's result
FindCompare ==
  /\ sl.rd.pc = "compare"
  /\ LET nx == sl.rd.nx
     IN IF nx # NIL /\ Before(sl.nodes[nx], sl.rd.key, TopStamp)
        THEN sl' = [sl EXCEPT !.rd.c = nx, !.rd.pc = "load"]
        ELSE IF sl.rd.cl > 0
        THEN sl' = [sl EXCEPT !.rd.cl = @ - 1, !.rd.pc = "load"]
        ELSE sl' = [sl EXCEPT !.rd.pc = "done",
                              !.rd.res = IF nx # NIL /\ sl.nodes[nx].key = sl.rd.key
                                         THEN nx ELSE NIL]
  /\ UNCHANGED <<engineVars, moreUnits,cw, sc, gc, mt>>

InitList ==
  /\ InitEngine(1, [flush |-> 0, target |-> 0],
                [ops |-> 0, clock |-> 0, restarts |-> 0, io |-> 0])
  /\ MoreIdle
  /\ cw = NoClose
  /\ sc = NoScan
  /\ gc = NoGc
  /\ sl = NewList
  /\ mt = NoTable

NextList ==
  \/ \E k \in ListKeys, t \in ListStamps, l \in 0..(ListLevels - 1) : InsertStart(k, t, l)
  \/ InsertStore
  \/ \E k \in ListKeys : FindStart(k)
  \/ FindLoad
  \/ FindCompare

SpecList == InitList /\ [][NextList]_vars

\* the nodes other than the head
ListIds == DOMAIN sl.nodes \ {HEAD}

\* C19: under any interleaving of Inserts, one at a time, with a Find, a
\* node's next pointer at a level is set before its predecessor at that level
\* points to it and levels are linked bottom-up, the Find never holds a node
\* that is not linked with its next pointer set at its level and below, and it
\* returns absent or the value of an entry of its key whose Insert has started.
C19_FindSeesLinkedNodes ==
  /\ \A n \in ListIds : \A l \in 0..(ListLevels - 1) :
       /\ sl.nodes[n].linked[l] => sl.nodes[n].stored[l]
       /\ sl.nodes[n].linked[l] => \A k \in 0..l : sl.nodes[n].linked[k]
       /\ \A p \in DOMAIN sl.nodes : sl.nodes[p].next[l] = n => sl.nodes[n].stored[l]
  /\ sl.rd.pc # "panic"
  /\ \A n \in {sl.rd.c, sl.rd.nx} \ {HEAD, NIL} :
       sl.rd.pc \in {"load", "compare"} =>
         \A l \in 0..sl.rd.cl : sl.nodes[n].linked[l] /\ sl.nodes[n].stored[l]
  /\ (sl.rd.pc = "done" /\ sl.rd.res # NIL) =>
       sl.rd.res \in ListIds /\ sl.nodes[sl.rd.res].key = sl.rd.key

\* C19 witness: a Find holds the node that an Insert is linking: it is linked
\* at level 0 and not yet at level 1
C19_Witness ==
  /\ sl.ins.pc \in {"store", "link"}
  /\ sl.rd.pc = "compare"
  /\ sl.rd.nx = sl.ins.n
  /\ sl.nodes[sl.ins.n].linked[0]
  /\ ~sl.nodes[sl.ins.n].linked[1]
  /\ sl.nodes[sl.ins.n].level = 1

\* ------------------------------------------------- a Memtable on its own
TableRows == 3
TableKeys == {"a", "a4096", "a4097"}
TableStamps == {1, 2}
TableValues == {NILV, EMPTY, "x"}

\* m.Insert(i+1, key, timestamp, value) of an entry that is not yet present
TableInsert(key, timestamp, value) ==
  /\ Len(mt.ins) < TableRows
  /\ ~InsertFatal(mt.m.rows, key, timestamp)
  /\ mt' = [mt EXCEPT
              !.m = Insert(mt.m, Len(mt.ins) + 1, key, timestamp, value),
              !.ins = @ \o <<[key |-> key, ts |-> timestamp, val |-> value]>>,
              !.probed = FALSE]
  /\ UNCHANGED <<engineVars, moreUnits,cw, sc, gc, sl>>

\* m.Find(key)
TableProbe(key) ==
  /\ ~mt.probed
  /\ LET r == MemFind(mt.m.rows, key)
     IN mt' = [mt EXCEPT !.probed = TRUE, !.key = key, !.val = r.val, !.found = r.found]
  /\ UNCHANGED <<engineVars, moreUnits,cw, sc, gc, sl>>

InitTable ==
  /\ InitEngine(1, [flush |-> 0, target |-> 0],
                [ops |-> 0, clock |-> 0, restarts |-> 0, io |-> 0])
  /\ MoreIdle
  /\ cw = NoClose
  /\ sc = NoScan
  /\ gc = NoGc
  /\ sl = NoList
  /\ mt = NoTable

NextTable ==
  \/ \E k \in TableKeys, t \in TableStamps, v \in TableValues : TableInsert(k, t, v)
  \/ \E k \in TableKeys : TableProbe(k)

SpecTable == InitTable /\ [][NextTable]_vars

\* the entries of key k inserted so far
Inserted(k) == {i \in 1..Len(mt.ins) : mt.ins[i].key = k}

\* the inserted entry of key k with the greatest timestamp
Newest(k) ==
  CHOOSE i \in Inserted(k) : \A j \in Inserted(k) : mt.ins[j].ts <= mt.ins[i].ts

IterNew ==
  /\ sl.it.pc \in {"none", "end"}
  /\ sl' = [sl EXCEPT !.it = [pc |-> "open", n |-> HEAD, out |-> <<>>,
                              base |-> Cardinality(DOMAIN sl.nodes),
                              busy |-> sl.ins.pc # "idle"]]
  /\ UNCHANGED <<engineVars, moreUnits,cw, sc, gc, mt>>

\* Iterator.Next: i.n = i.n.atomicLoadNext(0); a true result yields the node
IterNext ==
  /\ sl.it.pc = "open"
  /\ LET nx == sl.nodes[sl.it.n].next[0]
     IN sl' = IF nx = NIL THEN [sl EXCEPT !.it.pc = "end"]
              ELSE [sl EXCEPT !.it.n = nx, !.it.out = @ \o <<nx>>]
  /\ UNCHANGED <<engineVars, moreUnits,cw, sc, gc, mt>>

NextIter ==
  \/ \E k \in ListKeys, t \in ListStamps, l \in 0..(ListLevels - 1) : InsertStart(k, t, l)
  \/ InsertStore
  \/ IterNew
  \/ IterNext

SpecIter == InitList /\ [][NextIter]_vars

\* the iterator ran to its end over a memtable that no Insert touched
\* between NewIterator and the end
IterQuiet ==
  /\ sl.it.pc = "end"
  /\ ~sl.it.busy
  /\ sl.it.base = Cardinality(DOMAIN sl.nodes)

\* C21: an iterator over a memtable yields every inserted entry exactly once,
\* in (key ascending, timestamp descending) order, whatever the order of the
\* Inserts.
C21_IteratorYieldsAllInOrder ==
  IterQuiet =>
    /\ Len(sl.it.out) = Cardinality(ListIds)
    /\ {sl.it.out[i] : i \in 1..Len(sl.it.out)} = ListIds
    /\ \A i, j \in 1..Len(sl.it.out) :
         i < j =>
           LET a == sl.nodes[sl.it.out[i]]
               b == sl.nodes[sl.it.out[j]]
           IN \/ KeyRank(a.key) < KeyRank(b.key)
              \/ (a.key = b.key /\ a.ts > b.ts)

\* C21 witness: three entries, two of one key, inserted in an order that is
\* not the order the iterator yielded them in
C21_Witness ==
  /\ IterQuiet
  /\ Len(sl.it.out) = 3
  /\ sl.it.out[1] > sl.it.out[2]
  /\ \E i, j \in 1..3 : i # j /\ sl.nodes[sl.it.out[i]].key = sl.nodes[sl.it.out[j]].key

\* ------------------------------------------------------------ orderedcode
\* A byte is a number in 0..255 and a Go string the sequence of its bytes.
KeyBytes(k) ==
  CASE k = "" -> <<>>
    [] k = "a" -> <<97>>
    [] k = "ab" -> <<97, 98>>
    [] k = "b" -> <<98>>
    [] k = "c" -> <<99>>

\* Go's < on strings: byte by byte, a proper prefix is the smaller
RECURSIVE BytesLess(_, _)
BytesLess(x, y) ==
  IF y = <<>> THEN FALSE
  ELSE IF x = <<>> THEN TRUE
  ELSE IF x[1] # y[1] THEN x[1] < y[1]
  ELSE BytesLess(Tail(x), Tail(y))

\* the bitwise-not of every byte: what Decr does to an encoding
invert(bs) == [i \in 1..Len(bs) |-> 255 - bs[i]]

\* the body of an encoded string: 0x00 and 0xff are escaped
RECURSIVE escapeBytes(_)
escapeBytes(bs) ==
  IF bs = <<>> THEN <<>>
  ELSE (IF bs[1] = 0 THEN <<0, 255>>
        ELSE IF bs[1] = 255 THEN <<255, 0>>
        ELSE <<bs[1]>>) \o escapeBytes(Tail(bs))

\* orderedcode.Append of a string: the escaped bytes and the terminator
appendString(bs) == escapeBytes(bs) \o <<0, 1>>

\* orderedcode.Append of an int64: one byte for -64..63, then one more
\* byte for every seven bits, the length in unary in the leading bits
appendInt64(x) ==
  IF x >= -64 /\ x < 64 THEN <<x + 128>>
  ELSE IF x >= -8192 /\ x < 8192
    THEN LET e == IF x >= 0 THEN x + 49152 ELSE x + 16384
         IN <<e \div 256, e % 256>>
    ELSE LET e == IF x >= 0 THEN x + 14680064 ELSE x + 2097152
         IN <<e \div 65536, (e \div 256) % 256, e % 256>>

\* a parse that failed
ocCorrupt == [err |-> "Corruption", val |-> <<>>, rest |-> <<>>]

\* orderedcode.Parse into a *string: unescapes up to the terminator
RECURSIVE parseString(_, _)
parseString(s, acc) ==
  IF s = <<>> THEN ocCorrupt
  ELSE IF s[1] = 0
    THEN IF Len(s) < 2 THEN ocCorrupt
         ELSE IF s[2] = 1 THEN [err |-> "nil", val |-> acc, rest |-> SubSeq(s, 3, Len(s))]
         ELSE IF s[2] = 255 THEN parseString(SubSeq(s, 3, Len(s)), Append(acc, 0))
         ELSE ocCorrupt
  ELSE IF s[1] = 255
    THEN IF Len(s) < 2 \/ s[2] # 0 THEN ocCorrupt
         ELSE parseString(SubSeq(s, 3, Len(s)), Append(acc, 255))
  ELSE parseString(Tail(s), Append(acc, s[1]))

\* orderedcode.Parse into an *int64
parseInt64(s) ==
  IF s = <<>> THEN ocCorrupt
  ELSE LET c == s[1]
           neg == c < 128
           \* the leading byte with the sign folded away
           p == IF neg THEN 255 - c ELSE c
           n == IF p < 192 THEN 1 ELSE IF p < 224 THEN 2 ELSE IF p < 240 THEN 3 ELSE 4
       IN IF n = 1 THEN [err |-> "nil", val |-> c - 128, rest |-> Tail(s)]
          ELSE IF n > 3 \/ Len(s) < n THEN ocCorrupt
          ELSE LET b2 == IF neg THEN 255 - s[2] ELSE s[2]
                   b3 == IF neg THEN 255 - s[3] ELSE s[3]
                   x == IF n = 2 THEN (p - 192) * 256 + b2
                        ELSE (p - 224) * 65536 + b2 * 256 + b3
               IN [err |-> "nil", val |-> IF neg THEN -x - 1 ELSE x,
                   rest |-> SubSeq(s, n + 1, Len(s))]

\* ------------------------------------------------------------- SST blocks
\* rows appended to one SST, bytes of a data block, entries between restarts
SstRows == 5
SstBlockSize == 30
SstRestartInterval == 2

\* the length of binary.PutUvarint(n)
UvarintLen(n) == IF n < 128 THEN 1 ELSE IF n < 16384 THEN 2 ELSE 3

\* the bytes one entry of a data block takes
EntrySize(e) ==
  UvarintLen(e.shared) + UvarintLen(Len(e.rest)) + Len(e.rest)
    + UvarintLen(e.vlen) + e.vlen

\* the length of the common prefix of two byte strings
RECURSIVE CommonPrefix(_, _)
CommonPrefix(x, y) ==
  IF x = <<>> \/ y = <<>> \/ x[1] # y[1] THEN 0
  ELSE 1 + CommonPrefix(Tail(x), Tail(y))

\* newDataBlockBuilder, and the builder after Reset
NewDataBlockBuilder ==
  [buf |-> <<>>, len |-> 0, restarts |-> <<0>>, count |-> 0, lastKey |-> <<>>]

\* dataBlockBuilder.Append with prefixEncoder.EncodeInto: the encoded key
\* of (key, Decr(timestamp)), prefix-compressed against the last key unless
\* this entry opens a restart interval, then the value cell
dataBlockAppend(b, key, timestamp, value) ==
  LET tmpKey == appendString(KeyBytes(key)) \o invert(appendInt64(timestamp))
      restart == ~(b.count < SstRestartInterval)
      shared == IF restart THEN 0 ELSE CommonPrefix(b.lastKey, tmpKey)
      e == [off |-> b.len, shared |-> shared,
            rest |-> SubSeq(tmpKey, shared + 1, Len(tmpKey)),
            vlen |-> ValueLen(value) + 1, cell |-> EncodeCell(value)]
  IN [buf |-> Append(b.buf, e),
      len |-> b.len + EntrySize(e),
      restarts |-> IF restart THEN Append(b.restarts, b.len) ELSE b.restarts,
      count |-> (IF restart THEN 0 ELSE b.count) + 1,
      lastKey |-> tmpKey]

\* dataBlockBuilder.EstimatedSizeBytes
EstimatedSizeBytes(b) == b.len + Len(b.restarts) * 4 + 4

\* dataBlockBuilder.Finish: the entries, the restart offsets and their count
dataBlockFinish(b) ==
  [kind |-> "data", entries |-> b.buf, restarts |-> b.restarts, keys |-> {},
   size |-> b.len + Len(b.restarts) * 4 + 4]

\* crc32 (Castagnoli) of a block, taken as collision-free
crc32c(d) == <<"crc32c", d>>

\* the Writer of NewWriter
NewSstWriter ==
  [dataBlockB |-> NewDataBlockBuilder, indexBlockB |-> <<>>, filterBlockB |-> {},
   lastKey |-> "", offset |-> 0]

\* a file with nothing written yet
NoHandle == [offset |-> 0, size |-> 0]
EmptySstFile == [blocks |-> <<>>, index |-> NoHandle, filter |-> NoHandle]

\* Writer.writeChecksummedBlock: the block, its CRC, and the offset moved on
writeChecksummedBlock(f, offset, d) ==
  [blocks |-> Append(f.blocks, [offset |-> offset, data |-> d, sum |-> crc32c(d)]),
   index |-> f.index, filter |-> f.filter]

\* Writer.flushBlock: finish the data block, enter it in the index under
\* the last key appended, write it out and reset the builder
flushBlock(s) ==
  LET blockData == dataBlockFinish(s.w.dataBlockB)
      bh == [offset |-> s.w.offset, size |-> blockData.size]
  IN [s EXCEPT !.w.indexBlockB = Append(@, [key |-> s.w.lastKey, h |-> bh]),
               !.w.offset = @ + blockData.size + 4,
               !.w.dataBlockB = NewDataBlockBuilder,
               !.file = writeChecksummedBlock(s.file, s.w.offset, blockData)]

\* the filter block builder: Writer.Append adds the user key to the Bloom
\* filter.  The filter is the set of keys added; which other keys share all
\* their bits with them is left open (filterTest).
filterAppend(bloom, key) == bloom \cup {key}

\* Writer.Append
SstAppend(key, timestamp, value) ==
  /\ sf.pc = "writing"
  /\ Len(sf.rows) < SstRows
  /\ LET n == Len(sf.rows)
     IN n > 0 =>
          \/ BytesLess(KeyBytes(sf.rows[n].key), KeyBytes(key))
          \/ sf.rows[n].key = key /\ sf.rows[n].ts > timestamp
  /\ LET s1 == IF EstimatedSizeBytes(sf.w.dataBlockB) > SstBlockSize
               THEN flushBlock(sf) ELSE sf
     IN sf' = [s1 EXCEPT !.w.lastKey = key,
                         !.w.filterBlockB = filterAppend(@, key),
                         !.w.dataBlockB = dataBlockAppend(@, key, timestamp, value),
                         !.rows = Append(@, [key |-> key, ts |-> timestamp, val |-> value])]
  /\ UNCHANGED <<engineVars, cw, sc, gc, sl, mt, cp, mg, ch, oc, wa>>

\* the size of an index block: per entry two uvarints, the key and a handle
IndexSize(ib) == Len(ib) * 4

\* Writer.Close: the last data block, the filter block, the index block and
\* the footer with the two handles
SstClose ==
  /\ sf.pc = "writing"
  /\ LET s1 == flushBlock(sf)
         fb == [kind |-> "filter", entries |-> <<>>, restarts |-> <<>>,
                keys |-> s1.w.filterBlockB, size |-> 20001]
         fh == [offset |-> s1.w.offset, size |-> fb.size]
         f2 == writeChecksummedBlock(s1.file, fh.offset, fb)
         ib == [kind |-> "index", entries |-> s1.w.indexBlockB, restarts |-> <<>>,
                keys |-> {}, size |-> IndexSize(s1.w.indexBlockB)]
         ih == [offset |-> fh.offset + fb.size + 4, size |-> ib.size]
         f3 == writeChecksummedBlock(f2, ih.offset, ib)
     IN sf' = [s1 EXCEPT !.pc = "closed",
                         !.w.offset = ih.offset + ib.size + 4,
                         !.file = [f3 EXCEPT !.index = ih, !.filter = fh]]
  /\ UNCHANGED <<engineVars, cw, sc, gc, sl, mt, cp, mg, ch, oc, wa>>

\* what Find returns
SstResult(err, val, ts) == [err |-> err, val |-> val, ts |-> ts]
SstNotFound == SstResult("NotFound", NILV, 0)

\* verifyChecksum
verifyChecksum(bd, sum) == crc32c(bd) = sum

\* Reader.readRawBlock with no cache: the bytes at the handle, refused
\* when the CRC behind them does not match
readRawBlock(f, h) ==
  LET i == CHOOSE i \in 1..Len(f.blocks) : f.blocks[i].offset = h.offset
      bd == f.blocks[i].data
  IN IF ~verifyChecksum(bd, f.blocks[i].sum)
     THEN [err |-> "Corruption", data |-> bd]
     ELSE [err |-> "nil", data |-> bd]

\* bloom.Test: never FALSE for a key that was added, never TRUE while no
\* bit is set; collide says whether an absent key hashes onto set bits
filterTest(fb, key, collide) == key \in fb.keys \/ (collide /\ fb.keys # {})

\* indexBlock.Find stops at the first entry older than the key only
IndexKeyCoversStrict(key, kb) == BytesLess(KeyBytes(key), KeyBytes(kb))

\* indexBlock.Find stops at the first entry with key <= its key
IndexKeyCovers(key, kb) == ~BytesLess(KeyBytes(kb), KeyBytes(key))

\* indexBlock.Find: the handle of the first block whose last key is not
\* below key
indexFind(ib, key) ==
  LET hits == {i \in 1..Len(ib.entries) : IndexKeyCovers(key, ib.entries[i].key)}
  IN IF hits = {} THEN [err |-> "NotFound", h |-> NoHandle]
     ELSE [err |-> "nil", h |-> ib.entries[Min(hits)].h]

\* prefixDecodeFrom: the key of an entry given the key before it
prefixDecodeFrom(e, lastKey) ==
  IF Len(lastKey) < e.shared THEN [err |-> "Corruption", key |-> <<>>]
  ELSE [err |-> "nil", key |-> SubSeq(lastKey, 1, e.shared) \o e.rest]

\* parseEKey: the user key and the timestamp of an encoded key
parseEKey(eKey) ==
  LET k == parseString(eKey, <<>>)
  IN IF k.err # "nil" THEN [err |-> k.err, key |-> <<>>, ts |-> 0]
     ELSE LET t == parseInt64(invert(k.rest))
          IN IF t.err # "nil" THEN [err |-> t.err, key |-> <<>>, ts |-> 0]
             ELSE [err |-> "nil", key |-> k.val, ts |-> t.val]

\* bytes.Reader.Seek to an offset of the entries: the entry that starts
\* there, one past the last if the offset is the end
EntryAt(d, off) ==
  IF \E i \in 1..Len(d.entries) : d.entries[i].off = off
  THEN CHOOSE i \in 1..Len(d.entries) : d.entries[i].off = off
  ELSE Len(d.entries) + 1

\* dataBlock.Find, first loop: binary search over the restart points for
\* the last one whose key is below key; i and j count from 0 as in the code
RECURSIVE restartSearch(_, _, _, _)
restartSearch(d, key, i, j) ==
  IF ~(i < j) THEN [err |-> "nil", i |-> i]
  ELSE LET h == (i + j + 1) \div 2
           eKey == prefixDecodeFrom(d.entries[EntryAt(d, d.restarts[h + 1])], <<>>)
           p == parseEKey(eKey.key)
       IN IF eKey.err # "nil" THEN [err |-> eKey.err, i |-> i]
          ELSE IF p.err # "nil" THEN [err |-> p.err, i |-> i]
          ELSE IF BytesLess(p.key, KeyBytes(key)) THEN restartSearch(d, key, h, j)
          ELSE restartSearch(d, key, i, h - 1)

\* dataBlock.Find, second loop: from entry n on, the first entry of key
RECURSIVE blockScan(_, _, _, _)
blockScan(d, key, n, lastKey) ==
  IF n > Len(d.entries) THEN SstNotFound
  ELSE LET e == d.entries[n]
           eKey == prefixDecodeFrom(e, lastKey)
           p == parseEKey(eKey.key)
       IN IF eKey.err # "nil" THEN SstResult(eKey.err, NILV, 0)
          ELSE IF p.err # "nil" THEN SstResult(p.err, NILV, 0)
          ELSE IF p.key = KeyBytes(key) THEN SstResult("nil", DecodeCell(e.cell), p.ts)
          ELSE IF BytesLess(KeyBytes(key), p.key) THEN SstNotFound
          ELSE blockScan(d, key, n + 1, eKey.key)

\* dataBlock.Find
dataBlockFind(d, key) ==
  LET r == restartSearch(d, key, 0, Len(d.restarts) - 1)
  IN IF r.err # "nil" THEN SstResult(r.err, NILV, 0)
     ELSE blockScan(d, key, EntryAt(d, d.restarts[r.i + 1]), <<>>)

\* Reader.Find.  The error of getFilterBlock is not looked at: with a
\* filter block that fails its CRC fb is nil and fb.Test dereferences it.
ReaderFind(f, key, collide) ==
  LET fb == readRawBlock(f, f.filter)
      ib == readRawBlock(f, f.index)
      bh == indexFind(ib.data, key)
      db == readRawBlock(f, bh.h)
  IN IF fb.err # "nil" THEN SstResult("panic", NILV, 0)
     ELSE IF ~filterTest(fb.data, key, collide) THEN SstNotFound
     ELSE IF ib.err # "nil" THEN SstResult(ib.err, NILV, 0)
     ELSE IF bh.err # "nil" THEN SstResult(bh.err, NILV, 0)
     ELSE IF db.err # "nil" THEN SstResult(db.err, NILV, 0)
     ELSE dataBlockFind(db.data, key)

\* NewReader on the closed file and one Find
SstProbe(key, collide) ==
  /\ sf.pc = "closed"
  /\ sf' = [sf EXCEPT !.probed = TRUE, !.key = key,
                      !.res = ReaderFind(sf.file, key, collide)]
  /\ UNCHANGED <<engineVars, cw, sc, gc, sl, mt, cp, mg, ch, oc, wa>>

SstKeys == {"a", "ab", "b"}
SstProbeKeys == SstKeys \cup {"", "c"}
SstStamps == {1, 2, 3}
SstValues == {NILV, "x"}

\* a Writer from NewWriter on a new file
InitSst ==
  /\ InitEngine(1, [flush |-> 0, target |-> 0],
                [ops |-> 0, clock |-> 0, restarts |-> 0, io |-> 0])
  /\ cw = NoClose
  /\ sc = NoScan
  /\ gc = NoGc
  /\ sl = NoList
  /\ mt = NoTable
  /\ wa = NoAppend
  /\ cp = NoCompact
  /\ mg = NoMerge
  /\ ch = NoCache
  /\ oc = NoCode
  /\ sf = [pc |-> "writing", rows |-> <<>>, w |-> NewSstWriter, file |-> EmptySstFile,
           probed |-> FALSE, key |-> "", res |-> SstNotFound]

NextSst ==
  \/ \E k \in SstKeys, t \in SstStamps, v \in SstValues : SstAppend(k, t, v)
  \/ SstClose
  \/ \E k \in SstProbeKeys, c \in BOOLEAN : SstProbe(k, c)

SpecSst == InitSst /\ [][NextSst]_vars

\* the rows appended under a key
SstHits(key) == {i \in 1..Len(sf.rows) : sf.rows[i].key = key}

SstCorrupt(i, part) ==
  /\ sf.pc = "closed"
  /\ ~sf.probed
  /\ i \in 1..Len(sf.file.blocks)
  /\ \A j \in 1..Len(sf.file.blocks) :
       verifyChecksum(sf.file.blocks[j].data, sf.file.blocks[j].sum)
  /\ LET d == sf.file.blocks[i].data
         flipped == [d EXCEPT !.size = @ + 1]
     IN sf' = IF part = "data"
              THEN [sf EXCEPT !.file.blocks[i].data = flipped]
              ELSE [sf EXCEPT !.file.blocks[i].sum = crc32c(flipped)]
  /\ UNCHANGED <<engineVars, cw, sc, gc, sl, mt, cp, mg, ch, oc, wa>>

\* rows of an SST whose blocks are then damaged
SstCorruptRows == 3

NextSstCorrupt ==
  \/ \E k \in SstKeys, t \in SstStamps, v \in SstValues :
       Len(sf.rows) < SstCorruptRows /\ SstAppend(k, t, v)
  \/ SstClose
  \/ \E k \in SstProbeKeys, c \in BOOLEAN : SstProbe(k, c)
  \/ \E i \in 1..(SstRows + 2), part \in {"data", "sum"} : SstCorrupt(i, part)

SpecSstCorrupt == InitSst /\ [][NextSstCorrupt]_vars

\* the block at a handle fails its CRC
BadBlock(f, h) == readRawBlock(f, h).err = "Corruption"

\* the handles of the blocks Reader.Find reads for key when the filter
\* lets the key through: the filter block, then the index block, then the
\* data block the index names
SstBlocksRead(f, key) ==
  LET ib == readRawBlock(f, f.index)
      bh == indexFind(ib.data, key)
  IN {f.filter, f.index} \cup (IF ib.err = "nil" /\ bh.err = "nil" THEN {bh.h} ELSE {})

\* C23: when a block read during an SST Find (filter, index or data block)
\* fails its CRC-32C check, Find returns a Corruption error: no value, no
\* NotFound, no crash
C23_CorruptBlockGivesCorruption ==
  (sf.pc = "closed" /\ sf.probed
     /\ \E h \in SstBlocksRead(sf.file, sf.key) : BadBlock(sf.file, h))
  => sf.res.err = "Corruption"

\* ------------------------------------------------------- merging iterator
\* memIter.Next; index counts the rows passed, 0 before the first
iterNext(it) ==
  IF it.index >= Len(it.rows) THEN [has |-> FALSE, it |-> it]
  ELSE [has |-> TRUE, it |-> [it EXCEPT !.index = @ + 1]]

\* the row an Iter stands on: Key(), Timestamp(), Value()
iterRow(it) == it.rows[it.index]

\* iterHeap.Less on the rows of two iterators: key ascending, then
\* timestamp descending; nothing else is compared
rowLess(a, b) ==
  IF a.key # b.key THEN BytesLess(KeyBytes(a.key), KeyBytes(b.key))
  ELSE a.ts > b.ts

\* iterHeap.Less with its arguments exchanged
heapLessSwapped(iters, h, i, j) == rowLess(iterRow(iters[h[j + 1]]), iterRow(iters[h[i + 1]]))

\* iterHeap.Less; h holds the numbers of the iterators, positions from 0
heapLess(iters, h, i, j) == rowLess(iterRow(iters[h[i + 1]]), iterRow(iters[h[j + 1]]))

\* iterHeap.Swap
heapSwap(h, i, j) == [h EXCEPT ![i + 1] = h[j + 1], ![j + 1] = h[i + 1]]

\* container/heap down
RECURSIVE heapDown(_, _, _, _)
heapDown(iters, h, i, n) ==
  LET j1 == 2 * i + 1
      j2 == j1 + 1
      j == IF j2 < n /\ heapLess(iters, h, j2, j1) THEN j2 ELSE j1
  IN IF j1 >= n THEN h
     ELSE IF ~heapLess(iters, h, j, i) THEN h
     ELSE heapDown(iters, heapSwap(h, i, j), j, n)

\* container/heap up
RECURSIVE heapUp(_, _, _)
heapUp(iters, h, j) ==
  LET i == IF j = 0 THEN 0 ELSE (j - 1) \div 2
  IN IF i = j \/ ~heapLess(iters, h, j, i) THEN h
     ELSE heapUp(iters, heapSwap(h, i, j), i)

\* heap.Init
RECURSIVE heapInitFrom(_, _, _)
heapInitFrom(iters, h, i) ==
  IF i < 0 THEN h ELSE heapInitFrom(iters, heapDown(iters, h, i, Len(h)), i - 1)

heapInit(iters, h) == heapInitFrom(iters, h, (Len(h) \div 2) - 1)

\* heap.Push
heapPush(iters, h, x) == heapUp(iters, Append(h, x), Len(h))

\* heap.Pop: the root goes to the end, the rest is sifted, the end is cut
heapPop(iters, h) ==
  LET n == Len(h) - 1
      h1 == heapDown(iters, heapSwap(h, 0, n), 0, n)
  IN [x |-> h1[n + 1], h |-> SubSeq(h1, 1, n)]

\* NewIterFromRows for every child
NewIters(children) == [c \in 1..Len(children) |-> [rows |-> children[c], index |-> 0]]

\* newMergingIter: every iterator is advanced once; those that have a row
\* enter the heap in list order; heap.Init
newMergingIter(iters0) ==
  LET iters == [c \in 1..Len(iters0) |-> iterNext(iters0[c]).it]
      RECURSIVE live(_)
      live(c) == IF c > Len(iters0) THEN <<>>
                 ELSE (IF iterNext(iters0[c]).has THEN <<c>> ELSE <<>>) \o live(c + 1)
  IN [iters |-> iters, h |-> heapInit(iters, live(1)), out |-> <<>>]

\* mergingIter.Next: pop the least iterator, take its row as the current
\* one, advance it and push it back if it has another row.  out is the
\* history of the rows taken: which child, which row of it.
mergeNext(m) ==
  IF Len(m.h) = 0 THEN [has |-> FALSE, m |-> m]
  ELSE LET p == heapPop(m.iters, m.h)
           nx == iterNext(m.iters[p.x])
           iters == [m.iters EXCEPT ![p.x] = nx.it]
       IN [has |-> TRUE,
           m |-> [iters |-> iters,
                  h |-> IF nx.has THEN heapPush(iters, p.h, p.x) ELSE p.h,
                  out |-> Append(m.out, [c |-> p.x, i |-> m.iters[p.x].index])]]

MergeChildren == 3
MergeRows == 2
MergeKeys == {"a", "b"}
MergeStamps == {1, 2}

\* rows in (key ascending, timestamp descending) order, no two equal
SortedRows(rows) ==
  \A i \in 1..(Len(rows) - 1) : rowLess(rows[i], rows[i + 1])

\* the children a test can hand to newMergingIter
MergeInputs ==
  {s \in UNION {[1..n -> [key : MergeKeys, ts : MergeStamps, val : {"x"}]] : n \in 0..MergeRows} :
     SortedRows(s)}

\* newMergingIter called on the children
MergeNew ==
  /\ mg.pc = "new"
  /\ mg' = [mg EXCEPT !.pc = "open", !.m = newMergingIter(NewIters(mg.children))]
  /\ UNCHANGED <<engineVars, cw, sc, gc, sl, mt, sf, cp, ch, oc, wa>>

\* mergingIter.Next called by the test loop, which stops at the first false
MergeNext ==
  /\ mg.pc = "open"
  /\ LET r == mergeNext(mg.m)
     IN mg' = [mg EXCEPT !.m = r.m, !.pc = IF r.has THEN "open" ELSE "done"]
  /\ UNCHANGED <<engineVars, cw, sc, gc, sl, mt, sf, cp, ch, oc, wa>>

InitMerge ==
  /\ InitEngine(1, [flush |-> 0, target |-> 0],
                [ops |-> 0, clock |-> 0, restarts |-> 0, io |-> 0])
  /\ cw = NoClose
  /\ sc = NoScan
  /\ gc = NoGc
  /\ sl = NoList
  /\ mt = NoTable
  /\ wa = NoAppend
  /\ sf = NoSst
  /\ cp = NoCompact
  /\ ch = NoCache
  /\ oc = NoCode
  /\ \E n \in 1..MergeChildren : \E cs \in [1..n -> MergeInputs] :
       mg = [pc |-> "new", children |-> cs,
             m |-> [iters |-> NewIters(cs), h |-> <<>>, out |-> <<>>]]

NextMerge == MergeNew \/ MergeNext

SpecMerge == InitMerge /\ [][NextMerge]_vars

\* the row of the children that an entry of out stands for
MergeRow(e) == mg.children[e.c][e.i]

\* every row of every child
MergeAllRows == {[c |-> c, i |-> i] : c \in 1..Len(mg.children), i \in 1..MergeRows} \cap
                {e \in [c : 1..Len(mg.children), i : 1..MergeRows] : e.i <= Len(mg.children[e.c])}

\* C26: over children each sorted by (key ascending, timestamp descending)
\* the merging iterator yields every row of every child exactly once, in
\* that order, and then reports no next; over children that are all empty
\* it reports no next at the first call
C26_MergeYieldsAllInOrder ==
  /\ mg.pc # "none" =>
       /\ \A i \in 1..(Len(mg.m.out) - 1) :
            ~rowLess(MergeRow(mg.m.out[i + 1]), MergeRow(mg.m.out[i]))
       /\ \A i, j \in 1..Len(mg.m.out) : i # j => mg.m.out[i] # mg.m.out[j]
       /\ mg.pc = "open" /\ Len(mg.m.out) < Cardinality(MergeAllRows) => Len(mg.m.h) > 0
  /\ mg.pc = "done" => {mg.m.out[i] : i \in 1..Len(mg.m.out)} = MergeAllRows

\* three children of two rows each, merged to the end with the rows of the
\* children interleaved
C26_Witness ==
  /\ mg.pc = "done"
  /\ Len(mg.children) = 3
  /\ Len(mg.m.out) = 6
  /\ mg.m.out[1].c # mg.m.out[2].c
  /\ mg.m.out[2].c # mg.m.out[3].c

\* C27: when two children hold a row with the same (key, timestamp), the
\* merging iterator yields the row of the child earlier in the input list
\* first
C27_TiesInChildOrder ==
  mg.pc # "none" =>
    \A i, j \in 1..Len(mg.m.out) :
      (i < j /\ MergeRow(mg.m.out[i]).key = MergeRow(mg.m.out[j]).key
             /\ MergeRow(mg.m.out[i]).ts = MergeRow(mg.m.out[j]).ts)
      => mg.m.out[i].c < mg.m.out[j].c

\* -------------------------------------------------- compaction, refcounts
\* SSTs above which the compactor runs (8 in the code), SSTs flushed while
\* a compaction is under way, rows of an SST
CompactionSstCount == 2
CompactFlushes == 1
CompactRows == 2
CompactKeys == {"a"}
CompactStamps == {1, 2}
CompactValues == {NILV, "x"}

\* the names of the SST files there can be: those at the start, those
\* flushed later and the output of the compaction
CompactNames == 1..(CompactionSstCount + 1 + CompactFlushes + 1)

\* what a flushed memtable can hold: rows in (key ascending, timestamp
\* descending) order, no two with the same key and timestamp
CompactInputs ==
  {s \in UNION {[1..n -> [key : CompactKeys, ts : CompactStamps, val : CompactValues]] :
                  n \in 1..CompactRows} : SortedRows(s)}

\* Reader.Ref left out
readerRefNone(refs, names) == refs

\* Reader.Ref on each of names
readerRef(refs, names) ==
  [n \in DOMAIN refs |-> IF n \in names THEN refs[n] + 1 ELSE refs[n]]

\* Reader.UnRef on each of names: the count drops and the reader whose
\* count reaches zero closes and removes its file
readerUnRef(c, names) ==
  LET refs2 == [n \in DOMAIN c.refs |-> IF n \in names THEN c.refs[n] - 1 ELSE c.refs[n]]
  IN [c EXCEPT !.refs = refs2, !.files = @ \ {n \in names : refs2[n] = 0}]

\* the elements of a sequence
Range(s) == {s[i] : i \in 1..Len(s)}

\* the smallest name not yet given to a file
NextName(c) == Min(CompactNames \ c.made)

\* mergingIter.Next until it returns false
RECURSIVE mergeAll(_)
mergeAll(m) ==
  LET r == mergeNext(m)
  IN IF r.has THEN mergeAll(r.m) ELSE m.out

\* the loop of compact: the rows of the merging iterator over the
\* iterators of the inputs, in the order they are appended to the writer
compactRows(children) ==
  LET out == mergeAll(newMergingIter(NewIters(children)))
  IN [i \in 1..Len(out) |-> children[out[i].c][out[i].i]]

\* compactor and compact up to the lock: with more than CompactionSstCount
\* SSTs, all of them are merged into a new file and a reader is opened on it
CompactStart ==
  /\ cp.pc = "idle"
  /\ Len(cp.ssts) > CompactionSstCount
  /\ LET fn == NextName(cp)
         children == [i \in 1..Len(cp.ssts) |-> cp.rows[cp.ssts[i]]]
     IN cp' = [cp EXCEPT !.pc = "written", !.inputs = cp.ssts, !.out = fn,
                         !.made = @ \cup {fn}, !.files = @ \cup {fn},
                         !.rows[fn] = compactRows(children),
                         !.refs[fn] = 1]
  /\ UNCHANGED <<engineVars, cw, sc, gc, sl, mt, sf, mg, ch, oc, wa>>

\* the SSTs of a list as database.Find reads them
CompactFiles(c, names) == [i \in 1..Len(names) |-> WriteSst(c.rows[names[i]])]

\* what Find returns for every key over a list of SSTs, the memtables
\* holding nothing
CompactFind(c, names) ==
  [k \in CompactKeys |-> dbFind(<<>>, <<>>, CompactFiles(c, names), k)]

\* compact under the lock keeping nothing of the old list
compactKeepNone(list, inputs) == <<>>

\* compact under the lock: what stays of the descriptor, or of the list
\* of readers, when the inputs are taken out
compactKeep(list, inputs) == SelectSeq(list, LAMBDA n : n \notin Range(inputs))

\* compact under the lock: the inputs leave the descriptor and the list,
\* the output is appended to both, the inputs are unreferenced
CompactPublish ==
  /\ cp.pc = "written"
  /\ LET newSsts == Append(compactKeep(cp.ssts, cp.inputs), cp.out)
         newMetas == Append(compactKeep(cp.desc, cp.inputs), cp.out)
         c1 == readerUnRef(cp, Range(cp.ssts) \cap Range(cp.inputs))
     IN cp' = [c1 EXCEPT !.pc = "published", !.ssts = newSsts, !.desc = newMetas,
                         !.pre = CompactFind(cp, cp.ssts),
                         !.post = CompactFind(cp, newSsts)]
  /\ UNCHANGED <<engineVars, cw, sc, gc, sl, mt, sf, mg, ch, oc, wa>>

\* flushIMemtable: a new SST, its reader, and under the lock its entry in
\* the descriptor and in the list
CompactFlush(rows) ==
  /\ cp.flushed < CompactFlushes
  /\ LET fn == NextName(cp)
     IN cp' = [cp EXCEPT !.flushed = @ + 1,
                         !.made = @ \cup {fn}, !.files = @ \cup {fn},
                         !.rows[fn] = rows, !.refs[fn] = 1,
                         !.desc = Append(@, fn), !.ssts = Append(@, fn)]
  /\ UNCHANGED <<engineVars, cw, sc, gc, sl, mt, sf, mg, ch, oc, wa>>

\* database.Find under the read lock: every reader of the list is
\* referenced and copied
CompactFindSnapshot(key) ==
  /\ cp.fd.pc = "idle"
  /\ cp' = [cp EXCEPT !.refs = readerRef(cp.refs, Range(cp.ssts)),
                      !.fd = [pc |-> "reading", key |-> key, snap |-> cp.ssts, i |-> 1,
                              lost |-> FALSE, stale |-> cp.pc # "published"]]
  /\ UNCHANGED <<engineVars, cw, sc, gc, sl, mt, sf, mg, ch, oc, wa>>

\* database.Find, the loop over the copied readers: one Reader.Find
CompactFindRead ==
  /\ cp.fd.pc = "reading"
  /\ cp.fd.i <= Len(cp.fd.snap)
  /\ cp' = [cp EXCEPT !.fd.i = @ + 1,
                      !.fd.lost = @ \/ cp.fd.snap[cp.fd.i] \notin cp.files]
  /\ UNCHANGED <<engineVars, cw, sc, gc, sl, mt, sf, mg, ch, oc, wa>>

\* database.Find returns: the deferred UnRef of every copied reader
CompactFindDone ==
  /\ cp.fd.pc = "reading"
  /\ cp.fd.i > Len(cp.fd.snap)
  /\ cp' = [readerUnRef(cp, Range(cp.fd.snap)) EXCEPT !.fd.pc = "idle"]
  /\ UNCHANGED <<engineVars, cw, sc, gc, sl, mt, sf, mg, ch, oc, wa>>

\* a database with CompactionSstCount + 1 flushed SSTs with rows from
\* inputs, each with its reader in the list and its entry in the descriptor
InitCompactWith(inputs) ==
  /\ InitEngine(1, [flush |-> 0, target |-> 0],
                [ops |-> 0, clock |-> 0, restarts |-> 0, io |-> 0])
  /\ cw = NoClose
  /\ sc = NoScan
  /\ gc = NoGc
  /\ sl = NoList
  /\ mt = NoTable
  /\ wa = NoAppend
  /\ sf = NoSst
  /\ mg = NoMerge
  /\ ch = NoCache
  /\ oc = NoCode
  /\ \E start \in [1..(CompactionSstCount + 1) -> inputs] :
       cp = [pc |-> "idle", inputs |-> <<>>, out |-> 0, flushed |-> 0,
             made |-> 1..(CompactionSstCount + 1),
             files |-> 1..(CompactionSstCount + 1),
             rows |-> [n \in CompactNames |-> IF n \in DOMAIN start THEN start[n] ELSE <<>>],
             refs |-> [n \in CompactNames |-> IF n \in DOMAIN start THEN 1 ELSE 0],
             ssts |-> [i \in 1..(CompactionSstCount + 1) |-> i],
             desc |-> [i \in 1..(CompactionSstCount + 1) |-> i],
             pre |-> [k \in CompactKeys |-> [val |-> NILV, hit |-> FALSE]],
             post |-> [k \in CompactKeys |-> [val |-> NILV, hit |-> FALSE]],
             fd |-> [pc |-> "idle", key |-> "a", snap |-> <<>>, i |-> 1,
                     lost |-> FALSE, stale |-> FALSE]]

InitCompact == InitCompactWith(CompactInputs)

NextCompact ==
  \/ CompactStart
  \/ CompactPublish
  \/ \E rows \in CompactInputs : CompactFlush(rows)
  \/ \E k \in CompactKeys : CompactFindSnapshot(k)
  \/ CompactFindRead
  \/ CompactFindDone

SpecCompact == InitCompact /\ [][NextCompact]_vars

\* the same database with one row in every SST, a value or a tombstone:
\* the readers, their reference counts and their files
RefInputs == {<<[key |-> "a", ts |-> 1, val |-> "x"]>>, <<[key |-> "a", ts |-> 2, val |-> NILV]>>}

InitRefs == InitCompactWith(RefInputs)

NextRefs ==
  \/ CompactStart
  \/ CompactPublish
  \/ \E rows \in RefInputs : CompactFlush(rows)
  \/ \E k \in CompactKeys : CompactFindSnapshot(k)
  \/ CompactFindRead
  \/ CompactFindDone

SpecRefs == InitRefs /\ [][NextRefs]_vars

\* C24: an SST file is removed only after its reader has left the
\* descriptor and its reference count has dropped to zero; a Find that
\* referenced the readers under the read lock before a compaction was
\* published reads all of them with none removed underneath
C24_FileOutlivesReaders ==
  cp.pc # "none" =>
    /\ \A n \in cp.made \ cp.files : n \notin Range(cp.desc) /\ cp.refs[n] = 0
    /\ cp.fd.pc = "reading" =>
         /\ ~cp.fd.lost
         /\ \A n \in Range(cp.fd.snap) : n \in cp.files

\* a Find that took its readers before the publication is still reading
\* after it, and the input it is about to read is still on disk
C24_Witness ==
  /\ cp.pc = "published"
  /\ cp.fd.pc = "reading"
  /\ cp.fd.stale
  /\ cp.fd.i > 1
  /\ cp.fd.i <= Len(cp.fd.snap)
  /\ cp.fd.snap[cp.fd.i] \notin Range(cp.ssts)
  /\ cp.fd.snap[cp.fd.i] \in cp.files

\* the rows of a list of SSTs as a bag
RECURSIVE RowCount(_, _)
RowCount(rows, r) ==
  IF rows = <<>> THEN 0
  ELSE (IF Head(rows) = r THEN 1 ELSE 0) + RowCount(Tail(rows), r)

\* C25: a compaction writes exactly the multiset of the rows of its
\* inputs, with every older version and every tombstone, and Find(k)
\* returns the same immediately before and immediately after the
\* compaction is published
C25_CompactionPreservesRowsAndFind ==
  /\ cp.pc \in {"written", "published"} =>
       \A r \in [key : CompactKeys, ts : CompactStamps, val : CompactValues] :
         RowCount(cp.rows[cp.out], r) =
           LET counts == [i \in 1..Len(cp.inputs) |-> RowCount(cp.rows[cp.inputs[i]], r)]
               RECURSIVE sum(_)
               sum(i) == IF i = 0 THEN 0 ELSE counts[i] + sum(i - 1)
           IN sum(Len(cp.inputs))
  /\ cp.pc = "published" => cp.pre = cp.post

\* ------------------------------------------------------------ block cache
CacheCapacity == 5
CacheOps == 5
CacheKeys == {"a", "b", "c"}
CacheSizes == {1, 2}

\* NewCache(targetSize).  els are the list elements ever made, each with
\* its cacheEntry and the list it is linked in; young and old hold element
\* numbers, front first; entries is the map, 0 for a key it does not hold
NewCache(targetSize) ==
  [pc |-> "live", els |-> <<>>, young |-> <<>>, old |-> <<>>,
   entries |-> [k \in CacheKeys |-> 0],
   youngSize |-> 0, oldSize |-> 0,
   targetYoungSize |-> targetSize \div 5,
   targetOldSize |-> targetSize - targetSize \div 5,
   ops |-> 0,
   last |-> [op |-> "none", key |-> "", hit |-> FALSE, was |-> "none", size |-> 0]]

\* list.PushFront(v) on the named list: a new element holding v
pushFront(c, lst, v) ==
  LET e == Len(c.els) + 1
      c1 == [c EXCEPT !.els = Append(@, [key |-> v.key, size |-> v.size, old |-> v.old,
                                         list |-> lst])]
  IN IF lst = "young" THEN [c1 EXCEPT !.young = <<e>> \o @]
     ELSE [c1 EXCEPT !.old = <<e>> \o @]

\* list.Remove(e) on the named list: nothing happens to an element that is
\* not linked in that list
listRemove(c, lst, e) ==
  IF c.els[e].list # lst THEN c
  ELSE IF lst = "young"
    THEN [c EXCEPT !.young = SelectSeq(@, LAMBDA x : x # e), !.els[e].list = "none"]
    ELSE [c EXCEPT !.old = SelectSeq(@, LAMBDA x : x # e), !.els[e].list = "none"]

\* list.MoveToFront(e) on old
moveToFront(c, e) ==
  IF c.els[e].list # "old" THEN c
  ELSE [c EXCEPT !.old = <<e>> \o SelectSeq(@, LAMBDA x : x # e)]

\* Cache.runEviction, second loop: the back of young is dropped and its
\* key deleted from the map
RECURSIVE evictYoung(_)
evictYoung(c) ==
  IF ~(c.youngSize > c.targetYoungSize) THEN c
  ELSE LET e == c.young[Len(c.young)]
           c1 == listRemove(c, "young", e)
       IN evictYoung([c1 EXCEPT !.entries[c.els[e].key] = 0,
                                !.youngSize = @ - c.els[e].size])

\* Cache.runEviction, first loop: the back of old goes to the front of young
RECURSIVE evictOld(_)
evictOld(c) ==
  IF ~(c.oldSize > c.targetOldSize) THEN c
  ELSE LET e == c.old[Len(c.old)]
           c1 == pushFront(listRemove(c, "old", e), "young", c.els[e])
       IN evictOld([c1 EXCEPT !.oldSize = @ - c.els[e].size,
                              !.youngSize = @ + c.els[e].size])

\* Cache.runEviction
runEviction(c) == evictYoung(evictOld(c))

\* the list that holds an entry of key, as the lists stand
CacheHolder(c, key) ==
  IF \E i \in 1..Len(c.old) : c.els[c.old[i]].key = key THEN "old"
  ELSE IF \E i \in 1..Len(c.young) : c.els[c.young[i]].key = key THEN "young"
  ELSE "none"

\* Cache.Get.  ce is a copy of the element's cacheEntry, so ce.old = true
\* is lost; the element pushed on old is a new one and the map keeps the
\* element that was removed from young.
cacheGet(c, key) ==
  LET e == c.entries[key]
      ce == c.els[e]
  IN IF e = 0 THEN c
     ELSE IF ce.old THEN moveToFront(c, e)
     ELSE LET c1 == pushFront(listRemove(c, "young", e), "old", ce)
          IN runEviction([c1 EXCEPT !.oldSize = @ + ce.size,
                                    !.youngSize = @ - ce.size])

\* Cache.Insert
cacheInsert(c, key, size) ==
  IF c.entries[key] # 0 THEN c
  ELSE LET c1 == pushFront(c, "young", [key |-> key, size |-> size, old |-> FALSE])
       IN runEviction([c1 EXCEPT !.entries[key] = Len(c1.els),
                                 !.youngSize = @ + size])

CacheGet(key) ==
  /\ ch.pc = "live"
  /\ ch.ops < CacheOps
  /\ ch' = [cacheGet(ch, key) EXCEPT
              !.ops = @ + 1,
              !.last = [op |-> "Get", key |-> key, hit |-> ch.entries[key] # 0,
                        was |-> CacheHolder(ch, key),
                        size |-> IF ch.entries[key] # 0 THEN ch.els[ch.entries[key]].size
                                 ELSE 0]]
  /\ UNCHANGED <<engineVars, cw, sc, gc, sl, mt, sf, cp, mg, oc, wa>>

CacheInsert(key, size) ==
  /\ ch.pc = "live"
  /\ ch.ops < CacheOps
  /\ ch' = [cacheInsert(ch, key, size) EXCEPT
              !.ops = @ + 1,
              !.last = [op |-> "Insert", key |-> key, hit |-> ch.entries[key] # 0,
                        was |-> CacheHolder(ch, key), size |-> size]]
  /\ UNCHANGED <<engineVars, cw, sc, gc, sl, mt, sf, cp, mg, oc, wa>>

InitCache ==
  /\ InitEngine(1, [flush |-> 0, target |-> 0],
                [ops |-> 0, clock |-> 0, restarts |-> 0, io |-> 0])
  /\ cw = NoClose
  /\ sc = NoScan
  /\ gc = NoGc
  /\ sl = NoList
  /\ mt = NoTable
  /\ wa = NoAppend
  /\ sf = NoSst
  /\ cp = NoCompact
  /\ mg = NoMerge
  /\ oc = NoCode
  /\ ch = NewCache(CacheCapacity)

NextCache ==
  \/ \E k \in CacheKeys : CacheGet(k)
  \/ \E k \in CacheKeys, s \in CacheSizes : CacheInsert(k, s)

SpecCache == InitCache /\ [][NextCache]_vars

\* the keys of a list, front first, and the bytes it holds
CacheListKeys(lst) == [i \in 1..Len(lst) |-> ch.els[lst[i]].key]

RECURSIVE CacheBytes(_)
CacheBytes(lst) == IF lst = <<>> THEN 0 ELSE ch.els[Head(lst)].size + CacheBytes(Tail(lst))

\* how often a key stands in a list
CacheCopies(lst, key) == Cardinality({i \in 1..Len(lst) : ch.els[lst[i]].key = key})

\* C28: a Get that hits an entry of young moves it to the front of old and
\* moves its size from young to old; a Get that hits an entry of old moves
\* it to the front of old.  Moved: the entry is in the cache once, and the
\* sizes kept are the bytes the lists hold.
C28_GetPromotes ==
  (ch.pc = "live" /\ ch.last.op = "Get" /\ ch.last.hit /\ ch.last.was # "none") =>
    /\ CacheCopies(ch.old, ch.last.key) + CacheCopies(ch.young, ch.last.key) <= 1
    /\ ch.last.size <= ch.targetOldSize =>
         /\ ch.old # <<>>
         /\ CacheListKeys(ch.old)[1] = ch.last.key
    /\ ch.oldSize = CacheBytes(ch.old)
    /\ ch.youngSize = CacheBytes(ch.young)

\* C29: after every Insert and Get the bytes in old are at most
\* target_old (capacity - capacity/5) and the bytes in young at most
\* target_young (capacity/5); what is pushed out of old goes to young and
\* what is pushed out of the back of young leaves the cache
C29_SegmentsWithinTargets ==
  ch.pc = "live" =>
    /\ CacheBytes(ch.old) <= ch.targetOldSize
    /\ CacheBytes(ch.young) <= ch.targetYoungSize
    /\ \A k \in CacheKeys :
         ch.entries[k] = 0 => CacheCopies(ch.old, k) + CacheCopies(ch.young, k) = 0

\* ------------------------------------------------- orderedcode round trip
\* items of one Append call
OcItems == 2

\* a value of any item type: the bytes of a string, the number of an
\* integer, sign and magnitude bits of a float64
OcVal(s, n, neg) == [s |-> s, n |-> n, neg |-> neg]

OcStrings == {<<>>, <<0>>, <<255>>, <<0, 1>>, <<255, 0>>, <<97>>}
OcInt64s == {-8193, -65, -64, 63, 64, 8192}
OcUint64s == {0, 255, 256}
\* +0, -0 and the smallest floats on both sides of them
OcFloat64s == {OcVal(<<>>, 0, FALSE), OcVal(<<>>, 0, TRUE),
               OcVal(<<>>, 1, FALSE), OcVal(<<>>, 1, TRUE)}

OcValues(type) ==
  CASE type = "string" -> {OcVal(s, 0, FALSE) : s \in OcStrings}
    [] type = "trailing" -> {OcVal(s, 0, FALSE) : s \in OcStrings}
    [] type = "int64" -> {OcVal(<<>>, n, FALSE) : n \in OcInt64s}
    [] type = "uint64" -> {OcVal(<<>>, n, FALSE) : n \in OcUint64s}
    [] type = "float64" -> OcFloat64s
    [] type = "infinity" -> {OcVal(<<>>, 0, FALSE)}

OcTypes == {"string", "trailing", "int64", "uint64", "float64", "infinity"}

\* an item is a value or Decr(value)
OcAllItems ==
  UNION {{[type |-> t, decr |-> d, val |-> v] : v \in OcValues(t), d \in BOOLEAN} :
         t \in OcTypes}

\* the argument lists of Append: a TrailingString only as the last item
OcTuples ==
  UNION {{t \in [1..n -> OcAllItems] : \A i \in 1..(n - 1) : t[i].type # "trailing"} :
         n \in 1..OcItems}

\* the bytes of an unsigned number, most significant first, no leading zero
uintBytes(x) ==
  IF x = 0 THEN <<>>
  ELSE IF x < 256 THEN <<x>>
  ELSE IF x < 65536 THEN <<x \div 256, x % 256>>
  ELSE <<x \div 65536, (x \div 256) % 256, x % 256>>

\* orderedcode.Append of a uint64 without the length byte
appendUint64NoLength(x) == uintBytes(x)

\* orderedcode.Append of a uint64: the number of bytes, then the bytes
appendUint64(x) == <<Len(uintBytes(x))>> \o uintBytes(x)

\* orderedcode.Append of a float64: the bits as an int64, a negative one
\* turned into minus its magnitude, so that -0 and +0 are both 0
appendFloat64(f) == appendInt64(IF f.neg THEN -f.n ELSE f.n)

\* orderedcode.Append of one item; Decr inverts every byte
appendItem(it) ==
  LET e == CASE it.type = "string" -> appendString(it.val.s)
             [] it.type = "trailing" -> it.val.s
             [] it.type = "int64" -> appendInt64(it.val.n)
             [] it.type = "uint64" -> appendUint64(it.val.n)
             [] it.type = "float64" -> appendFloat64(it.val)
             [] it.type = "infinity" -> <<255, 255>>
  IN IF it.decr THEN invert(e) ELSE e

\* orderedcode.Append(nil, items...)
RECURSIVE ocAppend(_)
ocAppend(items) ==
  IF items = <<>> THEN <<>> ELSE appendItem(Head(items)) \o ocAppend(Tail(items))

\* the number that big-endian bytes stand for
RECURSIVE beValue(_)
beValue(bs) ==
  IF bs = <<>> THEN 0 ELSE beValue(SubSeq(bs, 1, Len(bs) - 1)) * 256 + bs[Len(bs)]

\* orderedcode.Parse into a *uint64
parseUint64(s) ==
  IF s = <<>> THEN ocCorrupt
  ELSE IF s[1] > 8 \/ Len(s) < 1 + s[1] THEN ocCorrupt
  ELSE [err |-> "nil", val |-> beValue(SubSeq(s, 2, 1 + s[1])),
        rest |-> SubSeq(s, 2 + s[1], Len(s))]

\* orderedcode.Parse of one item into a target of the given type; a
\* Decr target reads the inverted bytes
parseItem(s, type, decr) ==
  LET src == IF decr THEN invert(s) ELSE s
      bad == [err |-> "Corruption", val |-> OcVal(<<>>, 0, FALSE), rest |-> <<>>]
      r == CASE type = "string" ->
                  LET p == parseString(src, <<>>)
                  IN IF p.err # "nil" THEN bad
                     ELSE [err |-> "nil", val |-> OcVal(p.val, 0, FALSE), rest |-> p.rest]
             [] type = "trailing" ->
                  [err |-> "nil", val |-> OcVal(src, 0, FALSE), rest |-> <<>>]
             [] type = "int64" ->
                  LET p == parseInt64(src)
                  IN IF p.err # "nil" THEN bad
                     ELSE [err |-> "nil", val |-> OcVal(<<>>, p.val, FALSE), rest |-> p.rest]
             [] type = "uint64" ->
                  LET p == parseUint64(src)
                  IN IF p.err # "nil" THEN bad
                     ELSE [err |-> "nil", val |-> OcVal(<<>>, p.val, FALSE), rest |-> p.rest]
             [] type = "float64" ->
                  LET p == parseInt64(src)
                  IN IF p.err # "nil" THEN bad
                     ELSE [err |-> "nil",
                           val |-> IF p.val < 0 THEN OcVal(<<>>, -p.val, TRUE)
                                   ELSE OcVal(<<>>, p.val, FALSE),
                           rest |-> p.rest]
             [] type = "infinity" ->
                  IF Len(src) >= 2 /\ src[1] = 255 /\ src[2] = 255
                    THEN [err |-> "nil", val |-> OcVal(<<>>, 0, FALSE),
                          rest |-> SubSeq(src, 3, Len(src))]
                    ELSE bad
  IN IF r.err # "nil" THEN r
     ELSE [r EXCEPT !.rest = IF decr THEN invert(@) ELSE @]

\* orderedcode.Parse(enc, targets...): one item after the other, stopping
\* at the first error
RECURSIVE ocParse(_, _, _)
ocParse(s, targets, got) ==
  IF targets = <<>> THEN [err |-> "nil", got |-> got, rest |-> s]
  ELSE LET r == parseItem(s, Head(targets).type, Head(targets).decr)
       IN IF r.err # "nil" THEN [err |-> r.err, got |-> got, rest |-> s]
          ELSE ocParse(r.rest, Tail(targets), Append(got, r.val))

\* == on the values of a type: the two zeros of float64 are equal
ocEqual(type, a, b) ==
  IF type = "float64" THEN (a.n = 0 /\ b.n = 0) \/ a = b ELSE a = b

OcAppend ==
  /\ oc.pc = "input"
  /\ oc' = [oc EXCEPT !.pc = "appended", !.buf = ocAppend(oc.items)]
  /\ UNCHANGED <<engineVars, cw, sc, gc, sl, mt, sf, cp, mg, ch, wa>>

OcParse ==
  /\ oc.pc = "appended"
  /\ LET r == ocParse(oc.buf, oc.items, <<>>)
     IN oc' = [oc EXCEPT !.pc = "parsed", !.err = r.err, !.got = r.got, !.rest = r.rest]
  /\ UNCHANGED <<engineVars, cw, sc, gc, sl, mt, sf, cp, mg, ch, wa>>

InitCode ==
  /\ InitEngine(1, [flush |-> 0, target |-> 0],
                [ops |-> 0, clock |-> 0, restarts |-> 0, io |-> 0])
  /\ cw = NoClose
  /\ sc = NoScan
  /\ gc = NoGc
  /\ sl = NoList
  /\ mt = NoTable
  /\ wa = NoAppend
  /\ sf = NoSst
  /\ cp = NoCompact
  /\ mg = NoMerge
  /\ ch = NoCache
  /\ \E t \in OcTuples :
       oc = [pc |-> "input", items |-> t, buf |-> <<>>, err |-> "nil",
             got |-> <<>>, rest |-> <<>>]

NextCode == OcAppend \/ OcParse

SpecCode == InitCode /\ [][NextCode]_vars

OrderKeyLen == 2

\* user keys as bytes, with 0x00 and 0xff in them and prefixes of one another
OrderKeys == UNION {[1..n -> {0, 97, 255}] : n \in 0..OrderKeyLen}
\* timestamps whose encodings take one, two and three bytes
OrderStamps == {-65, -64, 0, 63, 64, 8191, 8192}

\* the encoded key with the timestamp appended in increasing order
encodeKeyIncreasing(key, timestamp) == appendString(key) \o appendInt64(timestamp)

\* dataBlockBuilder.Append: orderedcode.Append(key, Decr(timestamp))
encodeKey(key, timestamp) == appendString(key) \o invert(appendInt64(timestamp))

\* both rows are encoded
OrderEncode ==
  /\ oc.pc = "rows"
  /\ oc' = [oc EXCEPT !.pc = "encoded",
                      !.e1 = encodeKey(oc.k1, oc.ts1),
                      !.e2 = encodeKey(oc.k2, oc.ts2)]
  /\ UNCHANGED <<engineVars, cw, sc, gc, sl, mt, sf, cp, mg, ch, wa>>

InitOrder ==
  /\ InitEngine(1, [flush |-> 0, target |-> 0],
                [ops |-> 0, clock |-> 0, restarts |-> 0, io |-> 0])
  /\ cw = NoClose
  /\ sc = NoScan
  /\ gc = NoGc
  /\ sl = NoList
  /\ mt = NoTable
  /\ wa = NoAppend
  /\ sf = NoSst
  /\ cp = NoCompact
  /\ mg = NoMerge
  /\ ch = NoCache
  /\ \E k1 \in OrderKeys, k2 \in OrderKeys, ts1 \in OrderStamps, ts2 \in OrderStamps :
       oc = [pc |-> "rows", k1 |-> k1, ts1 |-> ts1, k2 |-> k2, ts2 |-> ts2,
             e1 |-> <<>>, e2 |-> <<>>]

NextOrder == OrderEncode

SpecOrder == InitOrder /\ [][NextOrder]_vars

\* C31: the encoded key of (k1, ts1) is below the encoded key of (k2, ts2)
\* in byte order exactly when k1 < k2, or k1 = k2 and ts1 > ts2
C31_EncodedKeyOrder ==
  oc.pc = "encoded" =>
    (BytesLess(oc.e1, oc.e2) <=>
       (BytesLess(oc.k1, oc.k2) \/ (oc.k1 = oc.k2 /\ oc.ts1 > oc.ts2)))

C31_Witness ==
  /\ oc.pc = "encoded"
  /\ oc.k1 = <<255>>
  /\ oc.k2 = <<255, 0>>
  /\ oc.ts1 = 63
  /\ oc.ts2 = 8192
  /\ oc.e1 = <<255, 0, 0, 1, 64>>
  /\ oc.e2 = <<255, 0, 0, 255, 0, 1, 31, 223, 255>>
  /\ BytesLess(oc.e1, oc.e2)

\* ------------------------------------------- applied_until and LSN windows
\* the mutation of log record l is a row of an SST listed in descriptor d
InListedSst(d, l) ==
  \E n \in 1..Len(d.cur) :
    /\ d.cur[n].fn \in DOMAIN sstFiles
    /\ \E r \in 1..Len(sstFiles[d.cur[n].fn]) :
         /\ sstFiles[d.cur[n].fn][r].key = l.key
         /\ sstFiles[d.cur[n].fn][r].ts = l.ts
         /\ sstFiles[d.cur[n].fn][r].cell = EncodeCell(IF l.type = "PUT" THEN l.val ELSE NILV)

\* C32: for every SstMeta of the current descriptor, every acknowledged
\* mutation with a sequence number <= its applied_until is a row of an SST
\* the descriptor lists; the SstMeta that a flush is about to publish
\* carries the largest sequence number held by the frozen memtable
C32_AppliedUntilCoversAcked ==
  alive =>
    /\ \A j \in 1..Len(desc.cur) : \A i \in DOMAIN hist :
         (hist[i].acked /\ hist[i].seq <= desc.cur[j].applied) => InListedSst(desc, hist[i].l)
    /\ flush.pc = "publish" =>
         /\ imem # <<>>
         /\ imem[1].seqs # {}
         /\ flush.applied = Max(imem[1].seqs)

\* C33: the sequence numbers held by the live memtable are above
\* lastAppliedFromSSTs and above those held by the frozen memtable, and
\* those of the frozen memtable lie above the sequence it was made with
\* and at or below the one the live memtable was made with
C33_WindowsDoNotOverlap ==
  alive =>
    /\ \A s \in mem.seqs : s > lastAppliedOf(desc)
    /\ imem # <<>> =>
         /\ \A s \in mem.seqs, t \in imem[1].seqs : s > t
         /\ \A t \in imem[1].seqs : t > imem[1].base /\ t <= mem.base

\* --- flushes over a log of several segments: one caller, every record
\* rolls the log over and is flushed, no restart
GcReqOps == 3

InitGcReq ==
  InitWith(1, [flush |-> 0, target |-> 0],
           [ops |-> GcReqOps, clock |-> 0, restarts |-> 0, io |-> 0])

NextGcReq ==
  \/ \E c \in DOMAIN cl, k \in {"a", "b"} : Set(c, k, "x")
  \/ \E c \in DOMAIN cl : WriterAppend(c)
  \/ WLWrite
  \/ WLSync
  \/ WLCallback
  \/ FlushWrite
  \/ FlushPublish

\* the goroutines of the engine keep running
SpecGcReq == InitGcReq /\ [][NextGcReq]_vars /\ WF_vars(NextGcReq)

\* segment f is not the one being appended to and every record it can
\* hold is below the applied_until of an SST of the saved descriptor
CoveredSegment(f) ==
  /\ alive
  /\ f \in DOMAIN walFiles
  /\ f # w.file
  /\ HasSuccessor(walFiles, f)
  /\ Successor(walFiles, f) < lastAppliedOf(LoadDescriptor(descFiles))

\* C35: once a flush has saved the descriptor with its SST, every WAL
\* segment that the flushed SSTs cover entirely is eventually deleted
C35_CoveredSegmentsEventuallyDeleted ==
  \A f \in 0..GcReqOps : CoveredSegment(f) ~> (f \notin DOMAIN walFiles)

\* C34: a compaction starts only over more than CompactionSstCount SSTs
\* (8 in the program) and, once published, the descriptor and the list of
\* readers hold its output in place of exactly its inputs: every SST ever
\* made that is neither an input nor the output, such as one flushed
\* while the compaction ran, is still in both
C34_CompactionReplacesExactlyInputs ==
  cp.pc \in {"written", "published"} =>
    /\ Len(cp.inputs) > CompactionSstCount
    /\ cp.pc = "published" =>
         /\ Range(cp.desc) = (cp.made \ Range(cp.inputs))
         /\ Range(cp.ssts) = (cp.made \ Range(cp.inputs))
         /\ cp.out \in Range(cp.desc)
         /\ Len(cp.desc) = Cardinality(Range(cp.desc))
         /\ Len(cp.ssts) = Cardinality(Range(cp.ssts))

\* an SST was flushed between the start of the compaction and its
\* publication and is listed after it
C34_Witness ==
  /\ cp.pc = "published"
  /\ cp.flushed = 1
  /\ cp.out = CompactionSstCount + 2
  /\ cp.ssts = <<CompactionSstCount + 3, CompactionSstCount + 2>>
  /\ cp.desc = <<CompactionSstCount + 3, CompactionSstCount + 2>>

\* C36: every record of segment wal-<s>.log has a sequence number >= s
\* and below the start of the following segment, and the segment the
\* writer appends to is the newest one
C36_SegmentsHoldTheirRange ==
  /\ \A f \in DOMAIN walFiles : \A i \in 1..Len(walFiles[f].recs) :
       /\ walFiles[f].recs[i].seq >= f
       /\ HasSuccessor(walFiles, f) => walFiles[f].recs[i].seq < Successor(walFiles, f)
  /\ alive => w.file = Max(DOMAIN walFiles)

\* C37: no two mutations of one key carry the same timestamp, and the
\* process is never aborted by a memtable Insert that meets a (key,
\* timestamp) pair already present
C37_TimestampsNeverRepeat ==
  /\ \A i, j \in DOMAIN hist :
       (i # j /\ hist[i].l.key = hist[j].l.key) => hist[i].l.ts # hist[j].l.ts
  /\ alive

\* ------------------------------------------- wal.Writer.Append on its own
\* calls of Append made on the stand-alone writer
AppendCalls == 3

\* I/O errors injected into the stand-alone writer
AppendIOFailures == 1

\* the largest size a single record can be
MaxRecordBytes == 104857600

\* encoded sizes of the log records handed to Append
AppendLens == {1, MaxRecordBytes, MaxRecordBytes + 1}

\* Options.TargetSize of the stand-alone writer
AppendTargets == {0, 16}

\* the zero rawRecord that formRecord returns with an error
ZeroRecord == [seq |-> 0, len |-> 0, call |-> 0]

\* wal.Writer.formRecord: the sequence number is taken, then the encoded
\* size is checked against MaxRecordBytes
formRawRecord(nextSeq, dataLen) ==
  IF dataLen > MaxRecordBytes THEN [r |-> ZeroRecord, err |-> TRUE]
  ELSE [r |-> [seq |-> nextSeq, len |-> dataLen, call |-> 0], err |-> FALSE]

\* wal.Writer.Append under the writer's lock: formRecord, the callback is
\* invoked when it failed, and the record it returned is sent on recordCh
AppendCall(dataLen) ==
  /\ wa.pc = "open"
  /\ Len(wa.calls) < AppendCalls
  /\ Len(wa.recordCh) < RecordChCap
  /\ LET f == formRawRecord(wa.nextSeq, dataLen)
         id == Len(wa.calls) + 1
         r == [f.r EXCEPT !.call = id]
     IN wa' = [wa EXCEPT !.nextSeq = wa.nextSeq + 1,
                         !.calls = Append(wa.calls,
                                     [len |-> dataLen, seq |-> wa.nextSeq, failed |-> f.err,
                                      cbs |-> IF f.err THEN 1 ELSE 0,
                                      written |-> FALSE, done |-> FALSE]),
                         !.recordCh = Append(wa.recordCh, r)]
  /\ UNCHANGED <<engineVars, cw, sc, gc, sl, mt, sf, cp, mg, ch, oc>>

\* writeLoop takes one record from recordCh: writeRawRecord rolls over to a
\* segment named by the record's sequence number when the segment is over
\* the target size, and writes the frame; when it fails the record's
\* callback is invoked with the error at once
LoopWrite ==
  /\ wa.pc = "open"
  /\ wa.recordCh # <<>>
  /\ LET r == Head(wa.recordCh)
         roll == wa.size > wa.target
     IN \E ok \in BOOLEAN :
          /\ ok \/ wa.io < AppendIOFailures
          /\ wa' = IF ok
                   THEN [wa EXCEPT !.recordCh = Tail(wa.recordCh),
                                   !.loop = "more",
                                   !.files = IF roll THEN rollover(wa.files, wa.file, wa.buf, r.seq, TRUE)
                                             ELSE wa.files,
                                   !.file = IF roll THEN r.seq ELSE wa.file,
                                   !.buf = IF roll THEN <<r>> ELSE Append(wa.buf, r),
                                   !.size = (IF roll THEN 0 ELSE wa.size) + r.len + 8,
                                   !.callbacks = Append(wa.callbacks, r.call),
                                   !.calls[r.call].written = TRUE]
                   ELSE [wa EXCEPT !.recordCh = Tail(wa.recordCh),
                                   !.loop = "more",
                                   !.io = wa.io + 1,
                                   !.calls[r.call].cbs = @ + 1,
                                   !.calls[r.call].done = TRUE]
  /\ UNCHANGED <<engineVars, cw, sc, gc, sl, mt, sf, cp, mg, ch, oc>>

\* recordCh is drained: sync, then every callback of the batch is invoked
\* with its result
LoopSync ==
  /\ wa.pc = "open"
  /\ wa.loop = "more"
  /\ wa.recordCh = <<>>
  /\ \E ok \in BOOLEAN :
       /\ ok \/ wa.io < AppendIOFailures
       /\ wa' = [wa EXCEPT !.loop = "first",
                           !.io = IF ok THEN wa.io ELSE wa.io + 1,
                           !.files = sync(wa.files, wa.file, wa.buf, ok),
                           !.buf = <<>>,
                           !.callbacks = <<>>,
                           !.calls = [i \in DOMAIN wa.calls |->
                                        IF i \in Range(wa.callbacks)
                                        THEN [wa.calls[i] EXCEPT !.cbs = @ + 1, !.done = TRUE]
                                        ELSE wa.calls[i]]]
  /\ UNCHANGED <<engineVars, cw, sc, gc, sl, mt, sf, cp, mg, ch, oc>>

\* wal.NewWriter on an empty directory: the first segment is open
InitAppend ==
  /\ InitEngine(1, [flush |-> 0, target |-> 0], [ops |-> 0, clock |-> 0, restarts |-> 0, io |-> 0])
  /\ cw = NoClose
  /\ sc = NoScan
  /\ gc = NoGc
  /\ sl = NoList
  /\ mt = NoTable
  /\ sf = NoSst
  /\ cp = NoCompact
  /\ mg = NoMerge
  /\ ch = NoCache
  /\ oc = NoCode
  /\ \E t \in AppendTargets :
       wa = [pc |-> "open", nextSeq |-> 0, target |-> t, size |-> 0, file |-> 0,
             files |-> Create(EmptyDir, 0), buf |-> <<>>, recordCh |-> <<>>,
             loop |-> "first", callbacks |-> <<>>, calls |-> <<>>, io |-> 0]

NextAppend ==
  \/ \E n \in AppendLens : AppendCall(n)
  \/ LoopWrite
  \/ LoopSync

SpecAppend == InitAppend /\ [][NextAppend]_vars

\* the writeLoop has nothing left to do
AppendQuiet == wa.recordCh = <<>> /\ wa.loop = "first"

\* C38: for every call of Writer.Append the callback is invoked exactly
\* once (never twice, and once when the writeLoop has drained the channel),
\* also when forming the record or writing it fails; a record that failed
\* to form is not enqueued and nothing is written to the log for it
C38_CallbackExactlyOnce ==
  wa.pc = "open" =>
    \A i \in DOMAIN wa.calls :
      /\ wa.calls[i].cbs <= 1
      /\ AppendQuiet => wa.calls[i].cbs = 1
      /\ wa.calls[i].failed =>
           /\ \A j \in DOMAIN wa.recordCh : wa.recordCh[j].call # i
           /\ ~wa.calls[i].written

\* --- concurrent Sets and Finds with the flush, every goroutine scheduled
LiveClients == 2
LiveOps == 3
LiveClock == 1

InitLive ==
  InitWith(LiveClients, [flush |-> 0, target |-> 1],
           [ops |-> LiveOps, clock |-> LiveClock, restarts |-> 0, io |-> 0])

NextLive ==
  \/ Tick
  \/ \E c \in DOMAIN cl : Set(c, "a", "x")
  \/ \E c \in DOMAIN cl : WriterAppend(c)
  \/ WLWrite
  \/ WLSync
  \/ WLCallback
  \/ FlushWrite
  \/ FlushPublish
  \/ \E c \in DOMAIN cl : Get(c, "a")
  \/ \E c \in DOMAIN cl : FindRead(c)

\* the callers that are inside a call, the writeLoop and the flush
\* goroutine are never held back for ever; whether a caller makes another
\* call, and the clock, are left open
FairLive ==
  /\ \A c \in 1..LiveClients : WF_vars(WriterAppend(c)) /\ WF_vars(FindRead(c))
  /\ WF_vars(WLWrite)
  /\ WF_vars(WLSync)
  /\ WF_vars(WLCallback)
  /\ WF_vars(FlushWrite)
  /\ WF_vars(FlushPublish)

SpecLive == InitLive /\ [][NextLive]_vars /\ FairLive

\* caller c is inside Set: before Append or awaiting the callback
InSet(c) == alive /\ cl[c].pc \in {"append", "wait"}

\* the Set of caller c has returned to it
SetReturned(c) == alive /\ cl[c].pc = "idle"

\* C39: with every goroutine scheduled and no I/O error, every Set call
\* eventually returns, and every record sent to the WAL writer eventually
\* has its callback run, whatever the interleaving with other Sets, Finds
\* and the memtable flush
C39_EverySetReturns ==
  /\ \A c \in 1..LiveClients : InSet(c) ~> SetReturned(c)
  /\ \A s \in 0..(LiveOps - 1) :
       (alive /\ \E i \in DOMAIN recordCh : recordCh[i].seq = s)
         ~> (alive /\ \E j \in DOMAIN cbLog : cbLog[j] = s)

\* the elements of the young and the old list
CacheListed == Range(ch.young) \cup Range(ch.old)

\* C40: after any sequence of Insert and Get the bookkeeping of the cache
\* is consistent: every key of the map is held by exactly one element of
\* exactly one list and the map points at it, no other key is in a list,
\* the old flag of every element names the list it is in, and youngSize
\* and oldSize are the bytes of their lists and never negative
C40_BookkeepingConsistent ==
  ch.pc = "live" =>
    /\ \A k \in CacheKeys :
         IF ch.entries[k] = 0
         THEN CacheCopies(ch.young, k) + CacheCopies(ch.old, k) = 0
         ELSE /\ CacheCopies(ch.young, k) + CacheCopies(ch.old, k) = 1
              /\ ch.entries[k] \in CacheListed
              /\ ch.els[ch.entries[k]].key = k
    /\ \A i \in 1..Len(ch.young) : ~ch.els[ch.young[i]].old
    /\ \A i \in 1..Len(ch.old) : ch.els[ch.old[i]].old
    /\ ch.youngSize = CacheBytes(ch.young) /\ ch.youngSize >= 0
    /\ ch.oldSize = CacheBytes(ch.old) /\ ch.oldSize >= 0

====
